---- MODULE Spec2Model ----
(***************************************************************************)
(* Verification model of the reminder / command-task plugin.               *)
(*                                                                         *)
(* Part A: the Command Execution Bridge and the failure path of the        *)
(*         Response Forwarder (command_trigger.py, class CommandTrigger).  *)
(* Part B: the Job Store as driven by the /rmd and /rmdg commands          *)
(*         (commands.py, utils.py).                                        *)
(***************************************************************************)
EXTENDS Integers, Sequences, FiniteSets, TLC

(***************************************************************************)
(* Bounds of the model.                                                    *)
(***************************************************************************)
\* number of synthetic-request firings in the concurrent bridge specification
NInv == 2
\* number of CommandTrigger objects
NInst == 2
\* replies one handler may send for one synthetic request
MaxReplies == 2
\* largest max_command_wait_time, in tenths of a second, of the concurrent specification
MaxWaitBridge == 2
\* largest max_command_wait_time, in tenths of a second, of the single-firing specification
MaxWaitTenths == 12
\* items created in one run of the store
MaxItems == 3
\* the minute after which the clock stops, and the minute it starts in
MaxMinute == 2
StartMinute == 1
\* items in a destination of a loaded data file
MaxLoaded == 2

(***************************************************************************)
(* IEEE-754 binary64 arithmetic, as far as `waited_time += wait_interval`  *)
(* and `waited_time < max_wait_time` need it.  A mantissa is a natural     *)
(* number kept as little-endian limbs of LimbBits bits.                    *)
(***************************************************************************)
MantBits == 53
LimbBits == 15
LimbBase == 32768

Pow2(n) ==
  IF n = 0 THEN 1 ELSE IF n = 1 THEN 2 ELSE IF n = 2 THEN 4 ELSE IF n = 3 THEN 8
  ELSE IF n = 4 THEN 16 ELSE IF n = 5 THEN 32 ELSE IF n = 6 THEN 64 ELSE IF n = 7 THEN 128
  ELSE IF n = 8 THEN 256 ELSE IF n = 9 THEN 512 ELSE IF n = 10 THEN 1024
  ELSE IF n = 11 THEN 2048 ELSE IF n = 12 THEN 4096 ELSE IF n = 13 THEN 8192
  ELSE IF n = 14 THEN 16384 ELSE 32768

\* number of significant bits of one limb (0 for 0)
LimbLen(v) ==
  IF v = 0 THEN 0 ELSE CHOOSE n \in 1..LimbBits : Pow2(n - 1) <= v /\ v < Pow2(n)

RECURSIVE BigTrim(_)
\* drop the high zero limbs
BigTrim(a) ==
  IF Len(a) = 0 \/ a[Len(a)] # 0 THEN a ELSE BigTrim(SubSeq(a, 1, Len(a) - 1))

RECURSIVE BigAddC(_, _, _)
BigAddC(a, b, c) ==
  IF Len(a) = 0 /\ Len(b) = 0 THEN (IF c = 0 THEN <<>> ELSE <<c>>)
  ELSE LET av == IF Len(a) = 0 THEN 0 ELSE a[1]
           bv == IF Len(b) = 0 THEN 0 ELSE b[1]
           s == av + bv + c
       IN <<s % LimbBase>> \o BigAddC(IF Len(a) = 0 THEN a ELSE Tail(a),
                                      IF Len(b) = 0 THEN b ELSE Tail(b),
                                      s \div LimbBase)

BigAdd(a, b) == BigAddC(a, b, 0)

RECURSIVE BigShlSmall(_, _, _)
\* a * 2^r for 0 <= r < LimbBits
BigShlSmall(a, r, c) ==
  IF Len(a) = 0 THEN (IF c = 0 THEN <<>> ELSE <<c>>)
  ELSE LET s == a[1] * Pow2(r) + c
       IN <<s % LimbBase>> \o BigShlSmall(Tail(a), r, s \div LimbBase)

\* a * 2^s
BigShl(a, s) ==
  IF Len(a) = 0 THEN a
  ELSE [j \in 1..(s \div LimbBits) |-> 0] \o BigShlSmall(a, s % LimbBits, 0)

BigBitLen(a) ==
  IF Len(a) = 0 THEN 0 ELSE LimbBits * (Len(a) - 1) + LimbLen(a[Len(a)])

\* bit number k of a (bit 0 is the least significant)
BigBit(a, k) ==
  LET q == k \div LimbBits + 1
  IN IF q > Len(a) THEN 0 ELSE (a[q] \div Pow2(k % LimbBits)) % 2

\* TRUE iff some bit of a below bit number k is set
BigLowNonZero(a, k) ==
  \E q \in 1..Len(a) :
     \/ q <= k \div LimbBits /\ a[q] # 0
     \/ q = k \div LimbBits + 1 /\ a[q] % Pow2(k % LimbBits) # 0

\* floor(a / 2^s)
BigShr(a, s) ==
  LET q == s \div LimbBits
      r == s % LimbBits
      n == Len(a) - q
      hi(j) == IF q + j + 1 <= Len(a) THEN a[q + j + 1] ELSE 0
  IN IF n <= 0 THEN <<>>
     ELSE BigTrim([j \in 1..n |->
                     (a[q + j] \div Pow2(r)) + (hi(j) % Pow2(r)) * Pow2(LimbBits - r)])

RECURSIVE BigLessFrom(_, _, _)
BigLessFrom(a, b, j) ==
  IF j = 0 THEN FALSE
  ELSE IF a[j] # b[j] THEN a[j] < b[j]
  ELSE BigLessFrom(a, b, j - 1)

BigLess(a, b) ==
  IF Len(a) # Len(b) THEN Len(a) < Len(b) ELSE BigLessFrom(a, b, Len(a))

RECURSIVE BigDivSmall(_, _, _)
\* quotient and remainder of a by a small divisor d, from the top limb down
BigDivSmall(a, d, rem) ==
  IF Len(a) = 0 THEN [q |-> <<>>, r |-> rem]
  ELSE LET cur == rem * LimbBase + a[Len(a)]
           rest == BigDivSmall(SubSeq(a, 1, Len(a) - 1), d, cur % d)
       IN [q |-> rest.q \o <<cur \div d>>, r |-> rest.r]

\* a double is m * 2^e with m of exactly MantBits bits; 0.0 has the empty mantissa
DblZero == [m |-> <<>>, e |-> 0]

\* round-to-nearest-even of the natural number a times 2^e
RoundDouble(a, e) ==
  LET L == BigBitLen(a)
  IN IF L <= MantBits
     THEN [m |-> BigShl(a, MantBits - L), e |-> e - (MantBits - L)]
     ELSE LET r == L - MantBits
              top == BigShr(a, r)
              up == BigBit(a, r - 1) = 1
                    /\ (BigLowNonZero(a, r - 1) \/ BigBit(top, 0) = 1)
              m == IF up THEN BigAdd(top, <<1>>) ELSE top
          IN IF BigBitLen(m) > MantBits
             THEN [m |-> BigShr(m, 1), e |-> e + r + 1]
             ELSE [m |-> m, e |-> e + r]

\* float.__add__ on two non-negative doubles
DblAdd(x, y) ==
  IF Len(x.m) = 0 THEN y
  ELSE IF Len(y.m) = 0 THEN x
  ELSE LET e == IF x.e < y.e THEN x.e ELSE y.e
       IN RoundDouble(BigAdd(BigShl(x.m, x.e - e), BigShl(y.m, y.e - e)), e)

\* float.__lt__ on two non-negative doubles
DblLess(x, y) ==
  IF Len(y.m) = 0 THEN FALSE
  ELSE IF Len(x.m) = 0 THEN TRUE
  ELSE IF x.e # y.e THEN x.e < y.e
  ELSE BigLess(x.m, y.m)

RECURSIVE Log2Floor(_, _, _)
\* the k with 2^k <= num/den < 2^(k+1)
Log2Floor(num, den, k) ==
  IF num < den THEN Log2Floor(2 * num, den, k - 1)
  ELSE IF num >= 2 * den THEN Log2Floor(num, 2 * den, k + 1)
  ELSE k

\* the double a decimal literal num/den denotes (the nearest one, ties to even)
DecToDouble(num, den) ==
  IF num = 0 THEN DblZero
  ELSE LET k == Log2Floor(num, den, 0)
           s == (MantBits - 1) - k
           d == BigDivSmall(BigShl(<<num>>, s), den, 0)
           q == BigTrim(d.q)
           up == 2 * d.r > den \/ (2 * d.r = den /\ BigBit(q, 0) = 1)
           m == IF up THEN BigAdd(q, <<1>>) ELSE q
       IN IF BigBitLen(m) > MantBits
          THEN [m |-> BigShr(m, 1), e |-> 1 - s]
          ELSE [m |-> m, e |-> 0 - s]

\* wait_interval = 0.1
wait_interval == DecToDouble(1, 10)

\* a max_command_wait_time of t tenths of a second, as the configuration file gives it
WaitTime(t) == DecToDouble(t, 10)


(***************************************************************************)
(* Strings: unified_msg_origin is "platform:MessageType:session".          *)
(***************************************************************************)
Char(s, i) == SubSeq(s, i, i)

HasColon(s) == \E i \in 1..Len(s) : Char(s, i) = ":"

\* index of the first ":" of s at or after position from (0 when there is none)
FirstColon(s, from) ==
  IF \E i \in from..Len(s) : Char(s, i) = ":"
  THEN CHOOSE i \in from..Len(s) :
         Char(s, i) = ":" /\ \A j \in from..(i - 1) : Char(s, j) # ":"
  ELSE 0

\* s.split(":", 2)
SplitOrigin(s) ==
  LET Cut(c1, c2) ==
        IF c1 = 0 THEN <<s>>
        ELSE IF c2 = 0 THEN <<SubSeq(s, 1, c1 - 1), SubSeq(s, c1 + 1, Len(s))>>
        ELSE <<SubSeq(s, 1, c1 - 1), SubSeq(s, c1 + 1, c2 - 1), SubSeq(s, c2 + 1, Len(s))>>
      First(c1) == Cut(c1, IF c1 = 0 THEN 0 ELSE FirstColon(s, c1 + 1))
  IN First(FirstColon(s, 1))

StartsWith(s, p) == Len(s) >= Len(p) /\ SubSeq(s, 1, Len(p)) = p

v3_platform_names ==
  << "aiocqhttp", "qq_official", "discord", "slack", "telegram", "wechatmp",
     "wechatferry", "wecom", "weixin_official_account", "satori", "webchat" >>

InSeq(x, q) == \E j \in 1..Len(q) : q[j] = x

\* utils.get_platform_type_from_origin(unified_msg_origin)
get_platform_type_from_origin(unified_msg_origin) ==
  LET Typed(platform_part) ==
        IF InSeq(platform_part, v3_platform_names) THEN platform_part
        ELSE IF \E j \in 1..Len(v3_platform_names) :
                   StartsWith(platform_part, v3_platform_names[j])
        THEN v3_platform_names[
               CHOOSE j \in 1..Len(v3_platform_names) :
                 /\ StartsWith(platform_part, v3_platform_names[j])
                 /\ \A h \in 1..(j - 1) : ~StartsWith(platform_part, v3_platform_names[h])]
        ELSE platform_part
  IN IF unified_msg_origin = "" \/ ~HasColon(unified_msg_origin) THEN "unknown"
     ELSE Typed(SplitOrigin(unified_msg_origin)[1])

\* positional parameters that utils.get_platform_type_from_origin declares
platform_type_params == 1
\* positional arguments CommandTrigger passes to it: (original_msg_origin, self.context)
platform_type_args == 2
\* Python raises TypeError when a call passes more positional arguments than declared
platform_type_call_raises == platform_type_args > platform_type_params

(***************************************************************************)
(* Python dictionaries are functions on a set of keys.                     *)
(***************************************************************************)
\* None, where a function, a dict or an event may stand
None == [kind |-> "None"]
\* no event: target_event is None
NoEvent == 0

\* d.get(key, default)
Get(d, key, default) == IF key \in DOMAIN d THEN d[key] ELSE default


(***************************************************************************)
(* PART A.  State of the Command Execution Bridge.                         *)
(*                                                                         *)
(* A firing is one call of trigger_and_forward_command; firing i creates   *)
(* the synthetic event i.  A CommandTrigger object may serve several       *)
(* firings, its fields are shared by them.                                 *)
(***************************************************************************)
VARIABLES
  pc,                     \* position of every firing
  inst,                   \* the CommandTrigger object a firing runs on
  dest,                   \* unified_msg_origin of a firing
  reminder,               \* the item (dict) of a firing
  evBot,                  \* TRUE iff the synthetic event has a bot with api.call_action
  config,                 \* plugin configuration
  evSend,                 \* the `send` attribute of every synthetic event
  has_send_oper,          \* the _has_send_oper flag of every synthetic event
  botCall,                \* bot.api.call_action of the platform's bot object
  captured_messages,      \* CommandTrigger.captured_messages
  original_send_method,   \* CommandTrigger.original_send_method
  target_event,           \* CommandTrigger.target_event
  original_call_action,   \* CommandTrigger.original_call_action
  event_queue,            \* synthetic events submitted to the host queue
  waited_time,            \* local of trigger_and_capture_command
  polls,                  \* number of completed asyncio.sleep(wait_interval)
  pollSeen,               \* the buffer as each poll saw it
  result,                 \* value returned by trigger_and_capture_command
  outcome,                \* how trigger_and_capture_command ended
  sent,                   \* replies the handler of an event has sent
  lastCall,               \* the handler's latest reply call: its event, its path, its return
  delivered               \* messages handed to the platform, in order

varsA == << pc, inst, dest, reminder, evBot, config, evSend, has_send_oper, botCall,
            captured_messages, original_send_method, target_event,
            original_call_action, event_queue, waited_time, polls, pollSeen,
            result, outcome, sent, lastCall, delivered >>

Invs == 1..NInv
Insts == 1..NInst

\* the bound method event.send of event ev
EventSend(ev) == [kind |-> "send", ev |-> ev]
\* variant: setup_message_interceptor leaves the bound send in place
intercepted_send_not_installed(self, ev) == [kind |-> "send", ev |-> ev]
\* the closure intercepted_send made by setup_message_interceptor(self, ev)
intercepted_send(self, ev) == [kind |-> "intercepted_send", self |-> self, ev |-> ev]
\* the bot's own call_action
BotCallAction == [kind |-> "call_action"]
\* the closure intercepted_call_action made by setup_message_interceptor(self, ev)
intercepted_call_action(self, ev) ==
  [kind |-> "intercepted_call_action", self |-> self, ev |-> ev]

IsShim(f) == f # None /\ f.kind \in {"intercepted_send", "intercepted_call_action"}

\* the objects setup_message_interceptor and restore_message_sender read and write
Bridge ==
  [ send |-> evSend, call |-> botCall, cap |-> captured_messages,
    osm |-> original_send_method, tev |-> target_event, oca |-> original_call_action ]

SetBridge(b) ==
  /\ evSend' = b.send
  /\ botCall' = b.call
  /\ captured_messages' = b.cap
  /\ original_send_method' = b.osm
  /\ target_event' = b.tev
  /\ original_call_action' = b.oca

\* CommandTrigger.setup_message_interceptor(target_event)
setup_message_interceptor(b, self, ev) ==
  LET osm == IF b.osm[self] = None THEN b.send[ev] ELSE b.osm[self]
      oca == IF evBot[ev] THEN b.call ELSE None
  IN [b EXCEPT !.tev[self] = ev,
               !.cap[self] = <<>>,
               !.osm[self] = osm,
               !.oca[self] = oca,
               !.send[ev] = intercepted_send(self, ev),
               !.call = IF oca # None THEN intercepted_call_action(self, ev) ELSE @]

\* CommandTrigger.restore_message_sender()
restore_message_sender(b, self) ==
  LET t == b.tev[self]
      b1 == IF b.osm[self] # None /\ t # NoEvent
            THEN [b EXCEPT !.send[t] = b.osm[self]] ELSE b
  IN IF b.oca[self] # None /\ t # NoEvent /\ evBot[t]
     THEN [b1 EXCEPT !.call = b.oca[self]] ELSE b1

\* variant: the loop test looks one interval ahead
loop_condition_ahead(waited, max_wait_time) ==
  DblLess(DblAdd(waited, wait_interval), max_wait_time)
\* the loop test `waited_time < max_wait_time`
loop_condition(waited, max_wait_time) == DblLess(waited, max_wait_time)

max_wait_time == WaitTime(config.max_command_wait_time)

\* variant: the call reports success whatever the buffer holds
capture_result_always_success(buf) == [ok |-> TRUE, msgs |-> buf]
\* `return True, self.captured_messages` or `return False, []`
capture_result(buf) ==
  IF buf # <<>> THEN [ok |-> TRUE, msgs |-> buf] ELSE [ok |-> FALSE, msgs |-> <<>>]

Returned(i) == pc[i] \in {"returned", "done", "raised"}
Created(i) == evSend[i] # None

(***************************************************************************)
(* State of the job store and of the scheduler's timers.                   *)
(***************************************************************************)
VARIABLES
  now,                    \* the wall clock: a minute and whether it is past that minute's start
  reminder_data,          \* destination key -> list of items
  jobs,                   \* the timers the scheduler holds
  created,                \* how many items were created so far
  op,                     \* the latest store operation; a removal's key, number and item
  loaded,                 \* what load_reminder_data read at start
  handlers,               \* the command handlers under way: where each one stands
  data_file               \* what the data file holds, as JSON

varsB == << now, reminder_data, jobs, created, op, loaded, handlers, data_file >>

(***************************************************************************)
(* State of the holiday oracle (utils.py, class HolidayManager) and of the *)
(* QQ-id cache (qq_id_cache.py, class QQIdCache).                          *)
(***************************************************************************)
VARIABLES
  holiday_data,           \* HolidayManager.holiday_data: year -> the special days of that year
  qq_cache,               \* QQIdCache._cache: platform_id -> qq_id
  qq_lock,                \* QQIdCache._lock: the callers at the lock, its holder first
  callers,                \* the get_qq_id calls under way: where each one stands
  fetched                 \* per platform_id: fetches begun, entry ever cleared or set

varsC == << holiday_data, qq_cache, qq_lock, callers, fetched >>

NHandlers == 2
Handlers == 1..NHandlers
\* no command handler is under way
NoHandler == [pc |-> "idle", dest |-> "", index |-> 0, seen |-> << >>, uid |-> 0]
NoHandlers == [h \in Handlers |-> NoHandler]

\* what stays as it is while trigger_and_capture_command runs
FiringInputsUnchanged == UNCHANGED << inst, dest, reminder, evBot, config, varsB, varsC >>

(***************************************************************************)
(* trigger_and_capture_command up to its first suspension.                 *)
(***************************************************************************)
\* create_command_event raises: the except branch restores and returns (False, [])
TriggerCreateRaises(i) ==
  /\ pc[i] = "idle"
  /\ SetBridge(restore_message_sender(Bridge, inst[i]))
  /\ pc' = [pc EXCEPT ![i] = "returned"]
  /\ result' = [result EXCEPT ![i] = [ok |-> FALSE, msgs |-> <<>>]]
  /\ outcome' = [outcome EXCEPT ![i] = "error"]
  /\ FiringInputsUnchanged
  /\ UNCHANGED << has_send_oper, event_queue, waited_time, polls, pollSeen, sent,
                  lastCall, delivered >>

\* the event is created and intercepted, event_queue.put_nowait raises
TriggerPutRaises(i) ==
  /\ pc[i] = "idle"
  /\ LET b0 == [Bridge EXCEPT !.send[i] = EventSend(i)]
         b1 == setup_message_interceptor(b0, inst[i], i)
     IN SetBridge(restore_message_sender(b1, inst[i]))
  /\ pc' = [pc EXCEPT ![i] = "returned"]
  /\ result' = [result EXCEPT ![i] = [ok |-> FALSE, msgs |-> <<>>]]
  /\ outcome' = [outcome EXCEPT ![i] = "error"]
  /\ FiringInputsUnchanged
  /\ UNCHANGED << has_send_oper, event_queue, waited_time, polls, pollSeen, sent,
                  lastCall, delivered >>

\* the event is created, intercepted and submitted; the wait loop is entered
TriggerSubmit(i) ==
  /\ pc[i] = "idle"
  /\ event_queue' = event_queue \cup {i}
  /\ waited_time' = [waited_time EXCEPT ![i] = DblZero]
  /\ LET b0 == [Bridge EXCEPT !.send[i] = EventSend(i)]
         b1 == setup_message_interceptor(b0, inst[i], i)
     IN IF loop_condition(DblZero, max_wait_time)
        THEN /\ SetBridge(b1)
             /\ pc' = [pc EXCEPT ![i] = "sleeping"]
             /\ UNCHANGED << result, outcome >>
        ELSE \* the loop body never runs
             /\ SetBridge(restore_message_sender(b1, inst[i]))
             /\ pc' = [pc EXCEPT ![i] = "returned"]
             /\ result' = [result EXCEPT ![i] = capture_result(b1.cap[inst[i]])]
             /\ outcome' = [outcome EXCEPT ![i] =
                              IF b1.cap[inst[i]] # <<>> THEN "captured" ELSE "timeout"]
  /\ FiringInputsUnchanged
  /\ UNCHANGED << has_send_oper, polls, pollSeen, sent, lastCall, delivered >>

(***************************************************************************)
(* One round of the wait loop: asyncio.sleep returns, waited_time grows,   *)
(* the buffer is looked at and the loop test is evaluated again.           *)
(***************************************************************************)
\* variant: the loop never looks at the buffer
capture_break_never(buf) == FALSE
\* `if self.captured_messages: break`
capture_break(buf) == buf # <<>>

Poll(i) ==
  /\ pc[i] = "sleeping"
  /\ LET self == inst[i]
         w == DblAdd(waited_time[i], wait_interval)
         buf == captured_messages[self]
         leave == capture_break(buf) \/ ~loop_condition(w, max_wait_time)
     IN /\ waited_time' = [waited_time EXCEPT ![i] = w]
        /\ polls' = [polls EXCEPT ![i] = @ + 1]
        /\ pollSeen' = [pollSeen EXCEPT ![i] = Append(@, buf)]
        /\ IF leave
           THEN /\ SetBridge(restore_message_sender(Bridge, self))
                /\ pc' = [pc EXCEPT ![i] = "returned"]
                /\ result' = [result EXCEPT ![i] = capture_result(buf)]
                /\ outcome' = [outcome EXCEPT ![i] =
                                 IF buf # <<>> THEN "captured" ELSE "timeout"]
           ELSE /\ UNCHANGED << evSend, botCall, captured_messages, original_send_method,
                                target_event, original_call_action, pc, result, outcome >>
  /\ FiringInputsUnchanged
  /\ UNCHANGED << has_send_oper, event_queue, sent, lastCall, delivered >>


(***************************************************************************)
(* The host runs the handler of a submitted synthetic event.  The handler  *)
(* replies through event.send or through bot.api.call_action, whatever     *)
(* these attributes hold when it calls them.                               *)
(***************************************************************************)
\* the n-th reply of the handler of event ev
Reply(ev, n) == [ev |-> ev, n |-> n]

Delivery(to, chain, by, firing) == [to |-> to, chain |-> chain, by |-> by, firing |-> firing]

\* await event.send(message_chain)
HandlerSend(e) ==
  /\ e \in event_queue
  /\ sent[e] < MaxReplies
  /\ sent' = [sent EXCEPT ![e] = @ + 1]
  /\ LET f == evSend[e]
         message_chain == Reply(e, sent[e] + 1)
     IN IF f.kind = "intercepted_send"
        THEN \* intercepted_send: keep the message, mark the event, report success
             /\ captured_messages' =
                  [captured_messages EXCEPT ![f.self] = Append(@, message_chain)]
             /\ has_send_oper' = [has_send_oper EXCEPT ![f.ev] = TRUE]
             /\ lastCall' = [ev |-> e, via |-> "send", ret |-> "True"]
             /\ UNCHANGED delivered
        ELSE \* the bound send of event f.ev: the platform delivers to that event's session
             /\ delivered' = Append(delivered, Delivery(dest[f.ev], <<message_chain>>, "host", e))
             /\ has_send_oper' = [has_send_oper EXCEPT ![f.ev] = TRUE]
             /\ lastCall' = [ev |-> e, via |-> "send", ret |-> "platform"]
             /\ UNCHANGED captured_messages
  /\ FiringInputsUnchanged
  /\ UNCHANGED << pc, evSend, botCall, original_send_method, target_event,
                  original_call_action, event_queue, waited_time, polls, pollSeen,
                  result, outcome >>

\* await event.bot.api.call_action("send_group_msg", message=[{"type": "text", ...}])
HandlerCallAction(e) ==
  /\ e \in event_queue
  /\ evBot[e]
  /\ sent[e] < MaxReplies
  /\ sent' = [sent EXCEPT ![e] = @ + 1]
  /\ LET g == botCall
         msg_chain == Reply(e, sent[e] + 1)
     IN IF g.kind = "intercepted_call_action"
        THEN \* intercepted_call_action: a send action with a text segment
             /\ captured_messages' =
                  [captured_messages EXCEPT ![g.self] = Append(@, msg_chain)]
             /\ has_send_oper' = [has_send_oper EXCEPT ![g.ev] = TRUE]
             /\ lastCall' = [ev |-> e, via |-> "call_action", ret |-> "message_id"]
             /\ UNCHANGED delivered
        ELSE /\ delivered' = Append(delivered, Delivery(dest[e], <<msg_chain>>, "host", e))
             /\ lastCall' = [ev |-> e, via |-> "call_action", ret |-> "platform"]
             /\ UNCHANGED << captured_messages, has_send_oper >>
  /\ FiringInputsUnchanged
  /\ UNCHANGED << pc, evSend, botCall, original_send_method, target_event,
                  original_call_action, event_queue, waited_time, polls, pollSeen,
                  result, outcome >>

(***************************************************************************)
(* trigger_and_forward_command after trigger_and_capture_command returned. *)
(***************************************************************************)
\* "指令任务"
TaskTag == "CommandTask"
\* " 执行失败，未收到响应"
FailSuffix == " execution failed, no response"

\* the command string the scheduler passes to trigger_and_forward_command
FiredCommand == "/rmd ls"

\* platform types the plugin was constructed with as wechat platforms
wechat_platforms == {"gewechat", "wechatpadpro"}

Plain(text) == [type |-> "Plain", text |-> text]
At(qq, name) == [type |-> "At", qq |-> qq, name |-> name]

LastUnderscore(s) ==
  IF \E i \in 1..Len(s) : Char(s, i) = "_"
  THEN CHOOSE i \in 1..Len(s) :
         Char(s, i) = "_" /\ \A j \in (i + 1)..Len(s) : Char(s, j) # "_"
  ELSE 0

\* ReminderMessageHandler.is_private_chat(unified_msg_origin)
is_private_chat(unified_msg_origin) ==
  LET parts == SplitOrigin(unified_msg_origin)
  IN Len(parts) >= 2 /\ parts[2] = "FriendMessage"

\* ReminderMessageHandler.get_original_session_id(session_id): with session isolation
\* the key carries a "_<creator id>" suffix that the transport does not know
get_original_session_id(session_id) ==
  LET parts == SplitOrigin(session_id)
      u == LastUnderscore(session_id)
  IN IF config.unique_session /\ Len(parts) = 3
        /\ u > Len(parts[1]) + Len(parts[2]) + 2
     THEN SubSeq(session_id, 1, u - 1)
     ELSE session_id

\* the test that guards every _add_at_message call
needs_at(unified_msg_origin, r) ==
  /\ config.enable_command_at
  /\ ~is_private_chat(unified_msg_origin)
  /\ "creator_id" \in DOMAIN r
  /\ r["creator_id"] # ""

\* CommandTrigger._add_at_message: the component it appends
add_at_message(original_msg_origin, r) ==
  LET platform_type == get_platform_type_from_origin(original_msg_origin)
      name == Get(r, "creator_name", "")
  IN IF platform_type = "aiocqhttp" THEN At(r["creator_id"], name)
     ELSE IF platform_type \in wechat_platforms /\ name # ""
     THEN Plain("@" \o name \o " ")
     ELSE Plain("@" \o r["creator_id"] \o " ")

\* the text of the failure notice
failure_text(r, command) ==
  LET command_display == Get(r, "text", command)
      custom_identifier == Get(r, "custom_identifier", None)
  IN IF custom_identifier # None /\ Get(custom_identifier, "text", "") # ""
     THEN IF Get(custom_identifier, "position", "start") = "start"
          THEN "[" \o custom_identifier["text"] \o "] " \o command_display \o FailSuffix
          ELSE "[" \o TaskTag \o "] " \o command_display \o FailSuffix
               \o " [" \o custom_identifier["text"] \o "]"
     ELSE "[" \o TaskTag \o "] " \o command_display \o FailSuffix

\* the else branch: nothing was captured
ForwardFailure(i) ==
  /\ pc[i] = "returned"
  /\ ~(result[i].ok /\ result[i].msgs # <<>>)
  /\ LET r == reminder[i]
         original_msg_origin == get_original_session_id(dest[i])
         at == needs_at(dest[i], r)
     IN IF at /\ platform_type_call_raises
        THEN \* _add_at_message raises TypeError, which leaves trigger_and_forward_command
             /\ pc' = [pc EXCEPT ![i] = "raised"]
             /\ UNCHANGED delivered
        ELSE /\ pc' = [pc EXCEPT ![i] = "done"]
             /\ delivered' = Append(delivered,
                  Delivery(original_msg_origin,
                           (IF at THEN <<add_at_message(original_msg_origin, r)>> ELSE <<>>)
                             \o <<Plain(failure_text(r, FiredCommand))>>,
                           "forwarder", i))
  /\ FiringInputsUnchanged
  /\ UNCHANGED << evSend, has_send_oper, botCall, captured_messages, original_send_method,
                  target_event, original_call_action, event_queue, waited_time, polls,
                  pollSeen, result, outcome, sent, lastCall >>

\* str(n) for n >= 0
Digits == << "0", "1", "2", "3", "4", "5", "6", "7", "8", "9" >>
RECURSIVE ToStr(_)
ToStr(n) == IF n < 10 THEN Digits[n + 1] ELSE ToStr(n \div 10) \o Digits[(n % 10) + 1]

Video(file) == [type |-> "Video", file |-> file]

\* captured_msg.chain: the components of the handler's n-th reply; every second reply
\* carries a video
chain_of(captured_msg) ==
  IF captured_msg.n % 2 = 1
  THEN << Plain("out" \o ToStr(captured_msg.n)) >>
  ELSE << Plain("clip" \o ToStr(captured_msg.n)), Video("v" \o ToStr(captured_msg.n)) >>

\* position = custom_identifier.get("position", "start") if custom_identifier else "start"
label_position(r) ==
  LET custom_identifier == Get(r, "custom_identifier", None)
  IN IF custom_identifier # None THEN Get(custom_identifier, "position", "start")
     ELSE "start"

\* identifier_text of the capture branch
identifier_text(r, command) ==
  LET command_display == Get(r, "text", command)
      custom_identifier == Get(r, "custom_identifier", None)
      hide == Get(config, "hide_command_identifier", FALSE)
  IN IF custom_identifier # None /\ Get(custom_identifier, "text", "") # ""
     THEN IF hide THEN custom_identifier["text"]
          ELSE "[" \o custom_identifier["text"] \o "] " \o command_display
     ELSE IF hide THEN ""
          ELSE "[" \o TaskTag \o "] " \o command_display

IsVideo(component) == component.type = "Video"

\* the send_message calls of one round of the loop over the captured replies
forward_one(captured_msg, r, unified_msg_origin, command, i) ==
  LET original_msg_origin == get_original_session_id(unified_msg_origin)
      cs == chain_of(captured_msg)
      has_video == \E k \in 1..Len(cs) : IsVideo(cs[k])
      id == identifier_text(r, command)
      position == label_position(r)
      platform_type == get_platform_type_from_origin(original_msg_origin)
      at == IF needs_at(unified_msg_origin, r)
            THEN << add_at_message(original_msg_origin, r) >> ELSE <<>>
      Send(chain) == Delivery(original_msg_origin, chain, "forwarder", i)
  IN IF has_video /\ platform_type = "aiocqhttp"
     THEN (IF id # "" /\ position = "start" THEN << Send(at \o << Plain(id) >>) >> ELSE <<>>)
          \o << Send(at \o SelectSeq(cs, IsVideo)) >>
          \o (IF id # "" /\ position = "end" THEN << Send(at \o << Plain(id) >>) >> ELSE <<>>)
     ELSE << Send(at \o (IF position = "start" /\ id # ""
                         THEN << Plain(id \o "\n") >> ELSE <<>>) \o cs) >>
          \o (IF position = "end" /\ id # "" THEN << Send(at \o << Plain(id) >>) >> ELSE <<>>)

RECURSIVE forward_captured(_, _, _, _, _)
\* the loop `for i, captured_msg in enumerate(captured_messages)`
forward_captured(msgs, r, unified_msg_origin, command, i) ==
  IF msgs = <<>> THEN <<>>
  ELSE forward_one(Head(msgs), r, unified_msg_origin, command, i)
       \o forward_captured(Tail(msgs), r, unified_msg_origin, command, i)

\* the if branch: replies were captured.  The first statement of the loop body that
\* can fail is the platform-type lookup, which comes before every send_message.
ForwardCaptured(i) ==
  /\ pc[i] = "returned"
  /\ result[i].ok /\ result[i].msgs # <<>>
  /\ IF platform_type_call_raises
     THEN \* TypeError in the first round, before anything is sent
          /\ pc' = [pc EXCEPT ![i] = "raised"]
          /\ UNCHANGED delivered
     ELSE /\ pc' = [pc EXCEPT ![i] = "done"]
          /\ delivered' = delivered
               \o forward_captured(result[i].msgs, reminder[i], dest[i], FiredCommand, i)
  /\ FiringInputsUnchanged
  /\ UNCHANGED << evSend, has_send_oper, botCall, captured_messages, original_send_method,
                  target_event, original_call_action, event_queue, waited_time, polls,
                  pollSeen, result, outcome, sent, lastCall >>

NextA ==
  \/ \E i \in Invs : TriggerCreateRaises(i)
  \/ \E i \in Invs : TriggerPutRaises(i)
  \/ \E i \in Invs : TriggerSubmit(i)
  \/ \E i \in Invs : Poll(i)
  \/ \E e \in Invs : HandlerSend(e)
  \/ \E e \in Invs : HandlerCallAction(e)
  \/ \E i \in Invs : ForwardFailure(i)
  \/ \E i \in Invs : ForwardCaptured(i)

(***************************************************************************)
(* PART B.  The job store: add, remove, list and save.                     *)
(*                                                                         *)
(* An instant is a minute count and a flag telling whether the instant is  *)
(* past the start of that minute.  A "%Y-%m-%d %H:%M" text names a minute. *)
(***************************************************************************)
Instant(m, s) == [min |-> m, sec |-> s]
Before(a, b) == a.min < b.min \/ (a.min = b.min /\ a.sec < b.sec)

DateFormat == "%Y-%m-%d %H:%M"
\* dt.strftime("%Y-%m-%d %H:%M"): seconds are dropped
strftime(t) == [fmt |-> DateFormat, min |-> t.min]
\* datetime.strptime(text, "%Y-%m-%d %H:%M") raises ValueError on other texts
strptime_raises(text) == text.fmt # DateFormat
strptime(text) == Instant(text.min, 0)
\* the text "" and a text that is no date
EmptyText == [fmt |-> "empty"]
MalformedText == [fmt |-> "malformed"]
\* Python truth of a stored datetime value
TruthyText(x) == x # EmptyText /\ x # None

\* datetime.timedelta(days=1), in minutes
DayMinutes == 1440

\* parse_datetime(time_str) at instant today, for a time_str naming minute hm of the day
parse_datetime(hm, today) ==
  LET dt0 == Instant((today.min \div DayMinutes) * DayMinutes + hm, today.sec)
      dt == IF Before(dt0, today) THEN Instant(dt0.min + DayMinutes, dt0.sec) ELSE dt0
  IN strftime(dt)

\* variant: an item whose minute has just begun counts as past
is_outdated_not_strict(r, t) ==
  IF "datetime" \in DOMAIN r /\ TruthyText(r["datetime"])
  THEN IF strptime_raises(r["datetime"]) THEN FALSE
       ELSE ~Before(t, strptime(r["datetime"]))
  ELSE FALSE
\* is_outdated(reminder) at instant t
is_outdated(r, t) ==
  IF "datetime" \in DOMAIN r /\ TruthyText(r["datetime"])
  THEN IF strptime_raises(r["datetime"]) THEN FALSE
       ELSE Before(strptime(r["datetime"]), t)
  ELSE FALSE

\* the filter of save_reminder_data
save_keeps(r, t) ==
  /\ "datetime" \in DOMAIN r
  /\ TruthyText(r["datetime"])
  /\ ~(Get(r, "repeat", "none") = "none" /\ is_outdated(r, t))

\* variant: the save takes the items out of the list it is walking through, so that
\* the item after one it takes out is passed over
save_reminder_data_removing_in_place(data, t) ==
  LET RECURSIVE walk(_, _)
      walk(list, k) ==
        IF k > Len(list) THEN list
        ELSE IF save_keeps(list[k], t) THEN walk(list, k + 1)
        ELSE walk(SubSeq(list, 1, k - 1) \o SubSeq(list, k + 1, Len(list)), k + 1)
  IN [g \in {h \in DOMAIN data : walk(data[h], 1) # <<>>} |-> walk(data[g], 1)]
\* afterwards (and what the file holds)
save_reminder_data(data, t) ==
  LET kept(g) == SelectSeq(data[g], LAMBDA r : save_keeps(r, t))
  IN [g \in {h \in DOMAIN data : kept(h) # <<>>} |-> kept(g)]

\* JSON values: null, true and false, numbers, strings, arrays and objects
JNull == [json |-> "null"]
JBool(b) == [json |-> "bool", v |-> b]
JNumber(n) == [json |-> "number", v |-> n]
JString(text) == [json |-> "string", v |-> text]
JArray(list) == [json |-> "array", v |-> list]
JObject(dict) == [json |-> "object", v |-> dict]
\* there is no data file
NoFile == [json |-> "absent"]

\* what json.dump writes for the value of field key of an item: None as null, a bool as
\* true or false, the list of commands as an array of strings, the custom identifier
\* as an object of strings, any text as a string
dump_field(key, x) ==
  IF key \in {"is_task", "is_command_task"} THEN JBool(x)
  ELSE IF key = "uid" THEN JNumber(x)
  ELSE IF key = "commands" THEN JArray([k \in 1..Len(x) |-> JString(x[k])])
  ELSE IF key = "custom_identifier"
  THEN IF x = None THEN JNull ELSE JObject([f \in DOMAIN x |-> JString(x[f])])
  ELSE IF key = "datetime" THEN IF x = None THEN JNull ELSE JString(x)
  ELSE JString(x)
\* json.dump(reminder_data, f, ensure_ascii=False): an object of arrays of objects
json_dump(data) ==
  JObject([g \in DOMAIN data |->
             JArray([k \in 1..Len(data[g]) |->
                       JObject([key \in DOMAIN data[g][k] |->
                                  dump_field(key, data[g][k][key])])])])
\* json.load(f): null as None, true and false as bools, arrays as lists, objects as
\* dicts
RECURSIVE json_load(_)
json_load(j) ==
  IF j.json = "null" THEN None
  ELSE IF j.json = "array" THEN [k \in 1..Len(j.v) |-> json_load(j.v[k])]
  ELSE IF j.json = "object" THEN [key \in DOMAIN j.v |-> json_load(j.v[key])]
  ELSE j.v
\* load_reminder_data(data_file): a file that is not there is created holding "{}"
file_after_load(file) == IF file = NoFile THEN JObject(<< >>) ELSE file
load_reminder_data(file) == json_load(file_after_load(file))

\* save_reminder_data(self.data_file, self.reminder_data) called on data: the store
\* and the file afterwards
Saved(data) ==
  /\ reminder_data' = save_reminder_data(data, now)
  /\ data_file' = json_dump(save_reminder_data(data, now))

\* reminder_data.get(msg_origin, [])
DictGet(data, key) == IF key \in DOMAIN data THEN data[key] ELSE <<>>
\* reminder_data[key] = value
DictSet(data, key, value) ==
  [g \in DOMAIN data \cup {key} |-> IF g = key THEN value ELSE data[g]]

\* variant: pop takes the item after the one asked for when there is one
pop_next(list, i) ==
  IF i + 2 <= Len(list)
  THEN SubSeq(list, 1, i + 1) \o SubSeq(list, i + 3, Len(list))
  ELSE SubSeq(list, 1, i)
\* list.pop(i), i counted from 0: the list afterwards
pop(list, i) == SubSeq(list, 1, i) \o SubSeq(list, i + 2, Len(list))


\* the plain listing of list_reminders: the items in the order of their numbers
ListingOrder(reminders) ==
  LET reminders_list == SelectSeq(reminders, LAMBDA r : ~Get(r, "is_task", FALSE))
      tasks_list == SelectSeq(reminders,
        LAMBDA r : Get(r, "is_task", FALSE) /\ ~Get(r, "is_command_task", FALSE))
      command_tasks_list == SelectSeq(reminders, LAMBDA r : Get(r, "is_command_task", FALSE))
  IN reminders_list \o tasks_list \o command_tasks_list

\* the item dicts add_reminder, add_task and add_command_task build; uid tells apart
\* the dict objects
NewItem(kind, datetime_text, final_repeat, uid) ==
  LET base == [text |-> kind \o ToStr(uid), datetime |-> datetime_text,
               repeat |-> final_repeat, creator_id |-> "u1", uid |-> uid]
  IN IF kind = "command"
     THEN base @@ [is_task |-> TRUE, is_command_task |-> TRUE, commands |-> <<"/rmd ls">>]
     ELSE base @@ [is_task |-> (kind = "task")]

RepeatInputs == {"none", "daily"}
\* the kind and repeat arguments the add commands are given
AddInputs == { <<"reminder", "none">>, <<"task", "daily">>, <<"command", "none">> }
\* the minute of the day the time argument names
TypedMinutes == {MaxMinute}

\* Tools.get_session_id(msg_origin, creator_id)
get_session_id(msg_origin, creator_id) == msg_origin \o "_" \o creator_id

\* the key a command typed in chat raw_msg_origin works on
local_origin(raw_msg_origin, creator_id) ==
  IF config.unique_session THEN get_session_id(raw_msg_origin, creator_id)
  ELSE raw_msg_origin

\* the key a remote command for group group_id works on
remote_origin(platform_name, group_id, creator_id) ==
  IF config.unique_session
  THEN platform_name \o ":GroupMessage:" \o group_id \o "_" \o creator_id
  ELSE platform_name \o ":GroupMessage:" \o group_id

\* ReminderScheduler.add_job(msg_origin, item, dt): a timer whose id carries the item's
\* position at creation and a creation stamp
JobId(msg_origin, index, stamp) ==
  "reminder_" \o msg_origin \o "_" \o ToStr(index) \o "_" \o ToStr(stamp)

add_job(js, msg_origin, item, dt, index) ==
  js \cup {[id |-> JobId(msg_origin, index, item.uid), run |-> dt, uid |-> item.uid]}

\* ReminderScheduler.remove_job(job_id): JobLookupError when no timer has the id
remove_job(js, job_id) == {j \in js : j.id # job_id}

\* scheduler.get_jobs() lists timers by run time; the first whose id has the prefix
FirstMatching(js, prefix) ==
  LET matching == {j \in js : StartsWith(j.id, prefix)}
  IN {j \in matching : \A k \in matching : ~Before(k.run, j.run)}

(***************************************************************************)
(* The command handlers.  None of them suspends between reading the store  *)
(* and saving it, so each is one step.  The week and holiday arguments are *)
(* left out.                                                               *)
(***************************************************************************)
NoOp == [kind |-> "none", dest |-> "", index |-> 0, uid |-> 0]
EmptyData == [g \in {} |-> <<>>]

Sender == "u1"
PlatformName == "aiocqhttp"
GroupIds == {"g1", "g2"}
OtherGroupId == "g2"
LocalChat == "aiocqhttp:GroupMessage:g1"

\* append the item, arm its timer, save
AddItem(msg_origin, kind, hm, repeat, opkind) ==
  /\ LET datetime_str == parse_datetime(hm, now)
         dt == strptime(datetime_str)
         item == NewItem(kind, strftime(dt), repeat, created + 1)
         reminders == Append(DictGet(reminder_data, msg_origin), item)
     IN /\ jobs' = add_job(jobs, msg_origin, item, dt, Len(reminders) - 1)
        /\ Saved(DictSet(reminder_data, msg_origin, reminders))
        /\ op' = [kind |-> opkind, dest |-> "", index |-> 0, uid |-> 0]
  /\ created' = created + 1
  /\ UNCHANGED << now, loaded, varsC, handlers, varsA >>

\* add_reminder, add_task, add_command_task
AddLocal(kind, hm, repeat) ==
  /\ created < MaxItems
  /\ AddItem(local_origin(LocalChat, Sender), kind, hm, repeat, "add")

\* _add_remote_item
AddRemote(group_id, kind, hm, repeat) ==
  /\ created < MaxItems
  /\ AddItem(remote_origin(PlatformName, group_id, Sender), kind, hm, repeat, "add_remote")

\* remove_reminder(event, index)
RemoveLocal(index) ==
  LET msg_origin == local_origin(LocalChat, Sender)
      reminders == DictGet(reminder_data, msg_origin)
      first == FirstMatching(jobs, "reminder_" \o msg_origin \o "_" \o ToStr(index - 1) \o "_")
  IN /\ reminders # <<>>
     /\ ~(index < 1 \/ index > Len(reminders))
     /\ IF first = {} THEN UNCHANGED jobs
        ELSE \E job \in first : jobs' = remove_job(jobs, job.id)
     /\ Saved(DictSet(reminder_data, msg_origin, pop(reminders, index - 1)))
     /\ op' = [kind |-> "rm", dest |-> msg_origin, index |-> index,
               uid |-> reminders[index].uid]
        /\ UNCHANGED << now, created, loaded, varsC, handlers, varsA >>

\* remove_remote_reminder(event, group_id, index)
RemoveRemote(group_id, index) ==
  LET msg_origin == remote_origin(PlatformName, group_id, Sender)
      reminders == DictGet(reminder_data, msg_origin)
      job_id == "reminder_" \o msg_origin \o "_" \o ToStr(index - 1)
  IN /\ reminders # <<>>
     /\ ~(index < 1 \/ index > Len(reminders))
     /\ jobs' = remove_job(jobs, job_id)
     /\ Saved(DictSet(reminder_data, msg_origin, pop(reminders, index - 1)))
     /\ op' = [kind |-> "rm_remote", dest |-> msg_origin, index |-> index,
               uid |-> reminders[index].uid]
        /\ UNCHANGED << now, created, loaded, varsC, handlers, varsA >>

\* time passes
Tick ==
  /\ now.min <= MaxMinute
  /\ now' = IF now.sec = 0 THEN Instant(now.min, 1) ELSE Instant(now.min + 1, 0)
  /\ UNCHANGED << reminder_data, data_file, jobs, created, op, loaded, varsC, handlers, varsA >>

\* the item with this uid, wherever it is, taken out of / replaced in the store
WithoutItem(data, uid) ==
  [g \in DOMAIN data |-> SelectSeq(data[g], LAMBDA r : r.uid # uid)]
Rescheduled(data, uid, text) ==
  [g \in DOMAIN data |->
     [k \in 1..Len(data[g]) |->
        IF data[g][k].uid = uid THEN [data[g][k] EXCEPT !["datetime"] = text]
        ELSE data[g][k]]]
ItemOf(data, uid) ==
  {r \in UNION {{data[g][k] : k \in 1..Len(data[g])} : g \in DOMAIN data} : r.uid = uid}

\* variant: an error of the action ends the callback
goes_on_after_action_unless_raised(raised) == ~raised
\* the Scheduler's boundary: an error the action raises is logged and swallowed, and the
\* callback goes on to arm the item again or to retire it
goes_on_after_action(raised) == TRUE

\* the timer of item uid elapses and its action runs, with or without an error: a
\* one-shot item is retired and deleted, a recurring one is moved to its next day and
\* armed again
Fire(uid, raised) ==
  \E job \in jobs :
    /\ job.uid = uid
    /\ ~Before(now, job.run)
    /\ LET recurring ==
             \E r \in ItemOf(reminder_data, uid) : Get(r, "repeat", "none") # "none"
           next == Instant(job.run.min + DayMinutes, 0)
       IN IF ~goes_on_after_action(raised)
          THEN /\ jobs' = jobs \ {job}
               /\ UNCHANGED << reminder_data, data_file >>
          ELSE IF recurring
          THEN /\ jobs' = (jobs \ {job}) \cup {[job EXCEPT !.run = next]}
               /\ Saved(Rescheduled(reminder_data, uid, strftime(next)))
          ELSE /\ jobs' = jobs \ {job}
               /\ Saved(WithoutItem(reminder_data, uid))
    /\ op' = [kind |-> "fire", dest |-> "", index |-> 0, uid |-> uid, run |-> job.run,
              raised |-> raised]
    /\ UNCHANGED << now, created, loaded, varsC, handlers, varsA >>

\* save_reminder_data runs on data as load_reminder_data read it
SaveLoaded ==
  /\ op.kind = "none"
  /\ Saved(reminder_data)
  /\ op' = [kind |-> "save", dest |-> "", index |-> 0, uid |-> 0]
  /\ UNCHANGED << now, jobs, created, loaded, varsC, handlers, varsA >>

NextStore ==
  \/ \E a \in AddInputs, hm \in TypedMinutes : AddLocal(a[1], hm, a[2])
  \/ \E a \in AddInputs, hm \in TypedMinutes : AddRemote(OtherGroupId, a[1], hm, a[2])
  \/ \E index \in 1..MaxItems : RemoveLocal(index)
  \/ \E group_id \in GroupIds, index \in 1..MaxItems : RemoveRemote(group_id, index)
  \/ Tick
  \/ \E uid \in 1..MaxItems, raised \in BOOLEAN : Fire(uid, raised)

NextSave ==
  \/ SaveLoaded
  \/ Tick

(***************************************************************************)
(* Inputs of a firing.                                                     *)
(***************************************************************************)
GroupOrigin == "aiocqhttp:GroupMessage:g1"
OtherGroupOrigin == "aiocqhttp:GroupMessage:g2"
PrivateOrigin == "aiocqhttp:FriendMessage:u1"
IsolatedGroupOrigin == "aiocqhttp:GroupMessage:g1_u1"
TelegramOrigin == "telegram:GroupMessage:g1"

BaseReminder == [text |-> "/rmd--ls", commands |-> <<"/rmd ls">>]

CreatorFields ==
  { [creator_id |-> "u1", creator_name |-> "Ann"],
    [creator_id |-> "u1", creator_name |-> ""],
    [creator_id |-> "", creator_name |-> ""],
    [creator_name |-> "Ann"] }

LabelFields ==
  { [is_command_task |-> TRUE],
    [custom_identifier |-> None],
    [custom_identifier |-> [text |-> "", position |-> "start"]],
    [custom_identifier |-> [text |-> "", position |-> "end"]],
    [custom_identifier |-> [text |-> "L", position |-> "start"]],
    [custom_identifier |-> [text |-> "L", position |-> "end"]] }

FireReminders ==
  { BaseReminder @@ c @@ l : c \in CreatorFields, l \in LabelFields }
  \cup { [commands |-> <<"/rmd ls">>, creator_id |-> "u1", creator_name |-> "Ann"] }

DefaultReminder ==
  BaseReminder @@ [creator_id |-> "u1", creator_name |-> "Ann", custom_identifier |-> None]

\* the oracle has no data and no get_qq_id call is under way
NCallers == 3
Callers == 1..NCallers
PlatformIds == {"aiocqhttp", "qq2"}
NoCall == [pc |-> "idle", platform_id |-> "", result |-> "", hit |-> FALSE]
InitCFixed ==
  /\ holiday_data = << >>
  /\ qq_cache = << >>
  /\ qq_lock = << >>
  /\ callers = [c \in Callers |-> NoCall]
  /\ fetched = [p \in PlatformIds |-> [fetches |-> 0, cleared |-> FALSE, set |-> FALSE]]

InitAFixed ==
  /\ evSend = [e \in Invs |-> None]
  /\ has_send_oper = [e \in Invs |-> FALSE]
  /\ botCall = BotCallAction
  /\ captured_messages = [k \in Insts |-> <<>>]
  /\ original_send_method = [k \in Insts |-> None]
  /\ target_event = [k \in Insts |-> NoEvent]
  /\ original_call_action = [k \in Insts |-> None]
  /\ event_queue = {}
  /\ waited_time = [i \in Invs |-> DblZero]
  /\ polls = [i \in Invs |-> 0]
  /\ pollSeen = [i \in Invs |-> <<>>]
  /\ result = [i \in Invs |-> [ok |-> FALSE, msgs |-> <<>>]]
  /\ outcome = [i \in Invs |-> "none"]
  /\ sent = [e \in Invs |-> 0]
  /\ lastCall = [ev |-> NoEvent, via |-> "none", ret |-> "none"]
  /\ delivered = <<>>

\* the store is left alone
InitBFixed ==
  /\ now = Instant(StartMinute, 1)
  /\ reminder_data = EmptyData
  /\ jobs = {}
  /\ created = 0
  /\ op = NoOp
  /\ loaded = EmptyData
  /\ handlers = NoHandlers
  /\ data_file = json_dump(loaded)
  /\ InitCFixed

\* no firing is under way
InitANone ==
  /\ pc = [i \in Invs |-> "off"]
  /\ inst = [i \in Invs |-> 1]
  /\ dest = [i \in Invs |-> GroupOrigin]
  /\ reminder = [i \in Invs |-> DefaultReminder]
  /\ evBot = [i \in Invs |-> FALSE]
  /\ config = [max_command_wait_time |-> MaxWaitBridge,
               enable_command_at |-> FALSE, unique_session |-> FALSE]
  /\ InitAFixed

\* the plugin starts on an empty data file
InitStore ==
  /\ InitANone
  /\ InitBFixed

\* what load_reminder_data may have read: items with any datetime value and any repeat
LoadedDatetimes ==
  { [fmt |-> DateFormat, min |-> m] : m \in 0..MaxMinute }
  \cup { EmptyText, MalformedText, None }
LoadedItems ==
  { [text |-> "x", datetime |-> d, repeat |-> r] : d \in LoadedDatetimes, r \in RepeatInputs }
  \cup { [text |-> "x", datetime |-> d] : d \in LoadedDatetimes }
  \cup { [text |-> "x", repeat |-> r] : r \in RepeatInputs }
LoadedLists == UNION { [1..n -> LoadedItems] : n \in 0..MaxLoaded }

InitSave ==
  /\ InitANone
  /\ now \in { Instant(StartMinute, 0), Instant(StartMinute, 1) }
  /\ \E l \in LoadedLists, other \in { <<>>, << [text |-> "x", datetime |-> EmptyText] >>,
                                       << [text |-> "x", datetime |-> strftime(Instant(0, 0)),
                                           repeat |-> "daily"] >> } :
       reminder_data = [g \in {"aiocqhttp:GroupMessage:g1", "aiocqhttp:GroupMessage:g2"} |->
                          IF g = "aiocqhttp:GroupMessage:g1" THEN l ELSE other]
  /\ jobs = {}
  /\ created = 0
  /\ op = NoOp
  /\ loaded = reminder_data
  /\ handlers = NoHandlers
  /\ data_file = json_dump(loaded)
  /\ InitCFixed

\* several firings, on one CommandTrigger or on several
InitBridge ==
  /\ pc = [i \in Invs |-> "idle"]
  /\ inst \in {f \in [Invs -> Insts] : f[1] = 1}
  /\ dest \in {f \in [Invs -> {GroupOrigin, OtherGroupOrigin}] : f[1] = GroupOrigin}
  /\ reminder = [i \in Invs |-> DefaultReminder]
  /\ \E b \in BOOLEAN : evBot = [i \in Invs |-> b]
  /\ config = [max_command_wait_time |-> MaxWaitBridge,
               enable_command_at |-> FALSE, unique_session |-> FALSE]
  /\ InitAFixed
  /\ InitBFixed

\* one firing, every input of the forwarder
InitFire ==
  /\ pc = [i \in Invs |-> IF i = 1 THEN "idle" ELSE "off"]
  /\ inst = [i \in Invs |-> 1]
  /\ \E d \in {GroupOrigin, PrivateOrigin, IsolatedGroupOrigin, TelegramOrigin} :
       dest = [i \in Invs |-> d]
  /\ \E r \in FireReminders : reminder = [i \in Invs |-> r]
  /\ evBot = [i \in Invs |-> TRUE]
  /\ config \in [max_command_wait_time : {MaxWaitBridge}, enable_command_at : BOOLEAN,
                 unique_session : BOOLEAN, hide_command_identifier : BOOLEAN]
  /\ InitAFixed
  /\ InitBFixed

\* one firing, every configured wait in tenths of a second
InitWait ==
  /\ pc = [i \in Invs |-> IF i = 1 THEN "idle" ELSE "off"]
  /\ inst = [i \in Invs |-> 1]
  /\ dest = [i \in Invs |-> GroupOrigin]
  /\ reminder = [i \in Invs |-> DefaultReminder]
  /\ \E b \in BOOLEAN : evBot = [i \in Invs |-> b]
  /\ config \in [max_command_wait_time : 0..MaxWaitTenths,
                 enable_command_at : {FALSE}, unique_session : {FALSE}]
  /\ InitAFixed
  /\ InitBFixed

vars == << varsA, varsB, varsC >>

SpecBridge == InitBridge /\ [][NextA]_vars
SpecFire == InitFire /\ [][NextA]_vars
SpecWait == InitWait /\ [][NextA]_vars
SpecStore == InitStore /\ [][NextStore]_vars
SpecSave == InitSave /\ [][NextSave]_vars


(***************************************************************************)
(* Properties of the bridge and of the forwarder.                          *)
(***************************************************************************)
Contains(s, t) ==
  \E k \in 1..(Len(s) - Len(t) + 1) : SubSeq(s, k, k + Len(t) - 1) = t

ForwardedBy(i) == SelectSeq(delivered, LAMBDA d : d.by = "forwarder" /\ d.firing = i)

\* C1: once trigger_and_capture_command has returned, whatever the outcome, the send
\* of its event is the event's own bound send again and no call_action shim made for
\* that event is left on the bot.
C1_OriginalsBackAfterReturn ==
  \A i \in Invs :
    (Returned(i) /\ Created(i)) =>
      /\ evSend[i] = EventSend(i)
      /\ (botCall.kind = "intercepted_call_action" => botCall.ev # i)

\* C2: a call for one destination returns no reply that the handler of a call for
\* another destination made.
C2_OnlyOwnReplies ==
  \A i \in Invs :
    Returned(i) =>
      \A k \in 1..Len(result[i].msgs) :
        dest[result[i].msgs[k].ev] = dest[i]

\* C3: when the event enters the queue and the call goes on to wait, the event's send
\* is the shim; and every reply the handler makes through event.send while the shim is
\* on the event is appended to the buffer, is not delivered, returns True and marks the
\* event as having sent.
C3_Step ==
  /\ \A e \in Invs :
       (e \in event_queue' /\ e \notin event_queue /\ pc'[e] = "sleeping") =>
         evSend'[e] = [kind |-> "intercepted_send", self |-> inst[e], ev |-> e]
  /\ \A e \in Invs :
       (sent'[e] = sent[e] + 1 /\ lastCall'.ev = e /\ lastCall'.via = "send"
          /\ IsShim(evSend[e])) =>
         /\ captured_messages'[evSend[e].self] =
              Append(captured_messages[evSend[e].self], Reply(e, sent'[e]))
         /\ delivered' = delivered
         /\ lastCall'.ret = "True"
         /\ has_send_oper'[e]

\* C3: in every step the shim is on the event when it enters the queue, and a reply
\* sent through the shim is buffered in send order, not delivered, and reported as sent.
C3_ShimCapturesInOrder == [][C3_Step]_vars

C3_TwoRepliesCaptured ==
  \E e \in Invs :
    /\ pc[e] = "sleeping"
    /\ e \in event_queue
    /\ lastCall = [ev |-> e, via |-> "send", ret |-> "True"]
    /\ captured_messages[inst[e]] = << Reply(e, 1), Reply(e, 2) >>
    /\ has_send_oper[e]
    /\ delivered = <<>>

\* C4 as stated: a call that times out made exactly the smallest number of polls n
\* with n * interval >= timeout.
C4_PollsAreCeiling ==
  \A i \in Invs :
    outcome[i] = "timeout" => polls[i] = config.max_command_wait_time

\* C4: a call that times out returns (False, []) after at least timeout / interval
\* polls and at most one poll more.
C4_PollsWithinOneInterval ==
  \A i \in Invs :
    outcome[i] = "timeout" =>
      /\ result[i] = [ok |-> FALSE, msgs |-> <<>>]
      /\ polls[i] >= config.max_command_wait_time
      /\ polls[i] <= config.max_command_wait_time + 1

C4_OnePollMore ==
  \E i \in Invs :
    /\ outcome[i] = "timeout"
    /\ config.max_command_wait_time > 0
    /\ polls[i] = config.max_command_wait_time + 1

\* C5: a call returns success at the first poll that finds the buffer non-empty, with
\* the replies captured until then in their order; it times out only when every poll
\* found the buffer empty.
C5_FirstNonEmptyPoll ==
  \A i \in Invs :
    /\ Len(pollSeen[i]) = polls[i]
    /\ outcome[i] = "captured" =>
         /\ polls[i] >= 1
         /\ \A k \in 1..(polls[i] - 1) : pollSeen[i][k] = <<>>
         /\ pollSeen[i][polls[i]] # <<>>
         /\ result[i] = [ok |-> TRUE, msgs |-> pollSeen[i][polls[i]]]
         /\ \A k \in 1..Len(result[i].msgs) : result[i].msgs[k] = Reply(i, k)
    /\ outcome[i] = "timeout" =>
         /\ \A k \in 1..polls[i] : pollSeen[i][k] = <<>>
         /\ result[i] = [ok |-> FALSE, msgs |-> <<>>]
    /\ pc[i] = "sleeping" => \A k \in 1..polls[i] : pollSeen[i][k] = <<>>

C5_CapturedAtLaterPoll ==
  \E i \in Invs :
    /\ outcome[i] = "captured"
    /\ polls[i] >= 3
    /\ Len(result[i].msgs) = 2

\* C6: a firing that captured nothing ends with exactly one delivery by the forwarder,
\* to the original destination: the failure notice, which names the command, carries
\* the custom label when one with text is set, and starts with the mention when the
\* mention policy is on, the destination is not private and the creator is known.
C6_OneFailureNotice ==
  \A i \in Invs :
    (pc[i] \in {"done", "raised"} /\ ~result[i].ok) =>
      LET ds == ForwardedBy(i)
          r == reminder[i]
          label == Get(Get(r, "custom_identifier", None), "text", "")
      IN /\ Len(ds) = 1
         /\ ds[1].to = get_original_session_id(dest[i])
         /\ LET chain == ds[1].chain
                notice == chain[Len(chain)]
            IN /\ notice.type = "Plain"
               /\ Contains(notice.text, Get(r, "text", FiredCommand))
               /\ Contains(notice.text, FailSuffix)
               /\ label # "" => Contains(notice.text, "[" \o label \o "]")
               /\ needs_at(dest[i], r) => (Len(chain) = 2 /\ chain[1].type = "At")
               /\ ~needs_at(dest[i], r) => Len(chain) = 1


(***************************************************************************)
(* Properties of the job store.                                            *)
(***************************************************************************)
Uids(list) == [k \in 1..Len(list) |-> list[k].uid]

\* a step of remove_reminder or remove_remote_reminder
RemoveStep == op'.kind \in {"rm", "rm_remote"} /\ reminder_data' # reminder_data

\* the list without its i-th item, i counted from 1
WithoutPosition(list, i) ==
  [k \in 1..(Len(list) - 1) |-> IF k < i THEN list[k] ELSE list[k + 1]]

\* a one-shot item whose minute began before instant t
ExpiredOneShot(r, t) ==
  /\ Get(r, "repeat", "none") = "none"
  /\ "datetime" \in DOMAIN r
  /\ Get(r["datetime"], "fmt", "") = DateFormat
  /\ (r["datetime"].min < t.min \/ (r["datetime"].min = t.min /\ t.sec > 0))

\* an item without a fire time: the key is absent, or its value is empty or null
NoFireAt(r) == "datetime" \notin DOMAIN r \/ r["datetime"] \in {EmptyText, None}

\* C7: every armed timer belongs to an item that is in the store, and its id starts
\* with "reminder_".
C7_NoTimerForRemovedItem ==
  \A j \in jobs :
    /\ ItemOf(reminder_data, j.uid) # {}
    /\ StartsWith(j.id, "reminder_")

\* C8 as stated: a removal at position i leaves exactly the destination's list without
\* its i-th item.
C8_Exactly == RemoveStep =>
  DictGet(reminder_data', op'.dest) = WithoutPosition(reminder_data[op'.dest], op'.index)

\* C8 as stated: every removal leaves the destination's list without its i-th item and
\* otherwise unchanged.
C8_RemovesExactlyItemAt == [][C8_Exactly]_vars

\* C8: a removal at position i takes out the i-th item and, in the save that follows,
\* the expired one-shot items; what stays keeps its order.
C8_ThenPurged == RemoveStep =>
  /\ op'.uid = reminder_data[op'.dest][op'.index].uid
  /\ DictGet(reminder_data', op'.dest) =
       SelectSeq(WithoutPosition(reminder_data[op'.dest], op'.index),
                 LAMBDA r : ~ExpiredOneShot(r, now))

\* C8: every removal takes out the i-th item, then the save purges the expired one-shot
\* items of the list; the remaining items keep their relative order.
C8_RemovesItemAtThenPurges == [][C8_ThenPurged]_vars

C8_MiddleItemRemoved ==
  /\ op = [kind |-> "rm", dest |-> LocalChat, index |-> 2, uid |-> 2]
  /\ Uids(DictGet(reminder_data, LocalChat)) = << 1, 3 >>

\* C9: the item a removal at number n takes out is the item the plain listing shows
\* under number n.
C9_Listed == RemoveStep =>
  ListingOrder(reminder_data[op'.dest])[op'.index].uid = op'.uid

\* C9: every removal at number n deletes the item that the plain listing of the
\* destination shows under number n.
C9_ListedNumberIsRemoved == [][C9_Listed]_vars

\* a step of save_reminder_data on the loaded data
SaveStep == op.kind = "none" /\ op'.kind = "save"

\* C10 as stated: a save deletes exactly the one-shot items whose fire time is strictly
\* past and the destinations left empty.
C10_Stated == SaveStep =>
  LET kept(g) == SelectSeq(reminder_data[g], LAMBDA r : ~ExpiredOneShot(r, now))
  IN /\ DOMAIN reminder_data' = {g \in DOMAIN reminder_data : kept(g) # <<>>}
     /\ \A g \in DOMAIN reminder_data' : reminder_data'[g] = kept(g)

\* C10 as stated: every save deletes the expired one-shot items and nothing else, and
\* drops the destinations left empty.
C10_DeletesOnlyExpiredOneShots == [][C10_Stated]_vars

\* C10: a save deletes exactly the items without a fire time and the one-shot items
\* whose fire time is strictly past, keeps every other item in its place, recurring
\* ones whatever their fire time, and removes the destinations left empty.
C10_Amended == SaveStep =>
  LET kept(g) == SelectSeq(reminder_data[g],
                           LAMBDA r : ~NoFireAt(r) /\ ~ExpiredOneShot(r, now))
  IN /\ DOMAIN reminder_data' = {g \in DOMAIN reminder_data : kept(g) # <<>>}
     /\ \A g \in DOMAIN reminder_data' : reminder_data'[g] = kept(g)

\* C10: every save deletes the expired one-shot items and the items without a fire
\* time, keeps the rest in place, and drops the destinations left empty.
C10_DeletesExpiredOneShotsAndUndated == [][C10_Amended]_vars

C10_SavedLoadedData ==
  /\ op.kind = "save"
  /\ Len(loaded[LocalChat]) = 2
  /\ ExpiredOneShot(loaded[LocalChat][1], now)
  /\ Get(loaded[LocalChat][2], "repeat", "none") = "daily"
  /\ loaded[LocalChat][2]["datetime"] = strftime(Instant(0, 0))
  /\ reminder_data = [g \in {LocalChat} |-> << loaded[LocalChat][2] >>]

\* an item whose fire time is a text in the format the program writes
Canonical(r) == "datetime" \in DOMAIN r /\ Get(r["datetime"], "fmt", "") = DateFormat

C11_Step == SaveStep =>
  \A g \in DOMAIN reminder_data' :
    \A k \in 1..Len(reminder_data'[g]) : Canonical(reminder_data'[g][k])

\* C11: after every save each stored item has a fire time in the format
\* '%Y-%m-%d %H:%M'; items without one, with a blank one or with a text in another
\* format are gone.
C11_SaveLeavesOnlyCanonical == [][C11_Step]_vars

(***************************************************************************)
(* The command parser: CommandUtils of command_utils.py.                   *)
(***************************************************************************)
\* str.find, counted from 1 (0 when sub does not occur), and the `in` test
find(s, sub) ==
  LET n == Len(sub)
      RECURSIVE scan(_)
      scan(k) == IF k + n - 1 > Len(s) THEN 0
                 ELSE IF SubSeq(s, k, k + n - 1) = sub THEN k
                 ELSE scan(k + 1)
  IN scan(1)
str_in(sub, s) == find(s, sub) # 0

\* str.split(sep)
RECURSIVE split(_, _)
split(s, sep) ==
  LET k == find(s, sep)
  IN IF k = 0 THEN << s >>
     ELSE << SubSeq(s, 1, k - 1) >> \o split(SubSeq(s, k + Len(sep), Len(s)), sep)

\* str.strip(); the blank is the one whitespace character of the inputs
Whitespace == {" "}
RECURSIVE strip(_)
strip(s) ==
  IF s = "" THEN s
  ELSE IF Char(s, 1) \in Whitespace THEN strip(SubSeq(s, 2, Len(s)))
  ELSE IF Char(s, Len(s)) \in Whitespace THEN strip(SubSeq(s, 1, Len(s) - 1))
  ELSE s

\* str.lower()
UpperCase == "ABCDEFGHIJKLMNOPQRSTUVWXYZ"
LowerCase == "abcdefghijklmnopqrstuvwxyz"
UpperChars == { Char(UpperCase, k) : k \in 1..Len(UpperCase) }
RECURSIVE lower(_)
lower(s) ==
  IF \A k \in 1..Len(s) : Char(s, k) \notin UpperChars THEN s
  ELSE (IF Char(s, 1) \in UpperChars THEN Char(LowerCase, find(UpperCase, Char(s, 1)))
        ELSE Char(s, 1)) \o lower(SubSeq(s, 2, Len(s)))

\* sep.join(parts)
RECURSIVE join(_, _)
join(parts, sep) ==
  IF parts = << >> THEN ""
  ELSE IF Len(parts) = 1 THEN parts[1]
  ELSE parts[1] \o sep \o join(Tail(parts), sep)

\* the position words of _parse_custom_identifier that are not ASCII, transliterated:
\* "末尾", "后面" (end) and "开头", "前面" (start)
MoWei == "#mowei"
HouMian == "#houmian"
KaiTou == "#kaitou"
QianMian == "#qianmian"

\* variant: a hint naming no position puts the label at the end
parse_custom_identifier_default_end(custom_part) ==
  IF custom_part = "" THEN None
  ELSE IF str_in("--", custom_part)
  THEN LET parts == split(custom_part, "--")
           position_part == strip(parts[1])
       IN [text |-> strip(parts[2]),
           position |-> IF str_in(KaiTou, position_part) \/ str_in(QianMian, position_part)
                           \/ str_in("start", lower(position_part))
                           \/ str_in("before", lower(position_part))
                        THEN "start" ELSE "end"]
  ELSE [text |-> custom_part, position |-> "start"]
\* CommandUtils._parse_custom_identifier(custom_part)
parse_custom_identifier(custom_part) ==
  LET Placed(position_part, low, text_part) ==
        [text |-> text_part,
         position |->
           IF str_in(MoWei, position_part) \/ str_in(HouMian, position_part)
              \/ str_in("end", low) \/ str_in("after", low)
           THEN "end"
           ELSE IF str_in(KaiTou, position_part) \/ str_in(QianMian, position_part)
                   \/ str_in("start", low) \/ str_in("before", low)
           THEN "start"
           ELSE "start"]
      Stripped(position_part, text_part) ==
        Placed(position_part, lower(position_part), text_part)
      Parted(parts) == Stripped(strip(parts[1]), strip(parts[2]))
  IN IF custom_part = "" THEN None
     ELSE IF str_in("--", custom_part) THEN Parted(split(custom_part, "--"))
     ELSE [text |-> custom_part, position |-> "start"]

\* [part.strip() for part in parts if part.strip()]
RECURSIVE stripped_parts(_)
stripped_parts(parts) ==
  IF parts = << >> THEN << >>
  ELSE (IF strip(parts[1]) = "" THEN << >> ELSE << strip(parts[1]) >>)
         \o stripped_parts(Tail(parts))

\* variant: the sub-commands are left out of the composed command
full_command_main_only(parts) == parts[1]
\* full_command = main_cmd + " " + " ".join(sub_cmds)
full_command(parts) == parts[1] \o " " \o join(Tail(parts), " ")

\* CommandUtils.parse_multi_command(command): (display command, commands, custom
\* identifier)
parse_multi_command(command) ==
  LET Commands(command_part, custom_identifier, parts) ==
        IF Len(parts) = 0 THEN << command_part, << >>, custom_identifier >>
        ELSE IF Len(parts) = 1
        THEN << command_part, << parts[1] >>, custom_identifier >>
        ELSE << command_part, << full_command(parts) >>, custom_identifier >>
      Labelled(command_part, custom_identifier) ==
        IF str_in("--", command_part)
        THEN Commands(command_part, custom_identifier,
                      stripped_parts(split(command_part, "--")))
        ELSE << command_part, << command_part >>, custom_identifier >>
      Parted(label_parts) ==
        Labelled(strip(label_parts[1]), parse_custom_identifier(strip(label_parts[2])))
  IN IF str_in("----", command) THEN Parted(split(command, "----"))
     ELSE Labelled(command, None)

\* the length under which validate_commands calls a command too short
MinCommandLen == 2
\* the messages of validate_commands, in English
NoCommandMsg == "no valid command"
BadStartMsg(i, cmd) == "command " \o ToStr(i) \o " must start with /: " \o cmd
TooShortMsg(i, cmd) == "command " \o ToStr(i) \o " is too short: " \o cmd

\* variant: every command list passes
validate_commands_accepts_all(commands) == << TRUE, "" >>
\* CommandUtils.validate_commands(commands): (is_valid, error_msg)
validate_commands(commands) ==
  IF commands = << >> THEN << FALSE, NoCommandMsg >>
  ELSE LET bad == {i \in 1..Len(commands) :
                     ~StartsWith(commands[i], "/") \/ Len(commands[i]) < MinCommandLen}
       IN IF bad = {} THEN << TRUE, "" >>
          ELSE LET i == CHOOSE b \in bad : \A c \in bad : b <= c
               IN IF ~StartsWith(commands[i], "/")
                  THEN << FALSE, BadStartMsg(i, commands[i]) >>
                  ELSE << FALSE, TooShortMsg(i, commands[i]) >>

\* variant: the display command is the composed command
format_command_display_composed(display_command, commands) ==
  IF commands = << >> THEN display_command ELSE commands[1]
\* CommandUtils.format_command_display(display_command, commands)
format_command_display(display_command, commands) == display_command

\* the raw command strings: a command part of up to MaxTokens pieces, alone or
\* followed by "----" and a label part
MaxTokens == 3
CommandTokens == {"/rmd--ls", "/rmd", "ls", "--", " ", "/", "a"}
RECURSIVE Concatenations(_)
Concatenations(n) ==
  IF n = 0 THEN {""}
  ELSE LET shorter == Concatenations(n - 1)
       IN shorter \cup {s \o t : s \in shorter, t \in CommandTokens}
CommandParts == Concatenations(MaxTokens)
\* the command parts that are given a label part
LabelledCommandParts == Concatenations(MaxTokens - 1)
PositionHints == {"", "end", "END", "before", "After", "later", MoWei, KaiTou, "start at end"}
LabelTexts == {"", "daily", " daily ", "good--day"}
ParseInputs ==
  { [kind |-> "input", form |-> "plain", raw |-> c, command_part |-> c,
     hint |-> "", label_text |-> ""] : c \in CommandParts }
  \cup { [kind |-> "input", form |-> "labelled", raw |-> c \o "----" \o h \o "--" \o t,
          command_part |-> c, hint |-> h, label_text |-> t] :
           c \in LabelledCommandParts, h \in PositionHints, t \in LabelTexts }
  \cup { [kind |-> "input", form |-> "note", raw |-> c \o "----" \o "note",
          command_part |-> c, hint |-> "", label_text |-> "note"] :
           c \in LabelledCommandParts }

\* a command string arrives at add_command_task
InitParse ==
  /\ InitANone
  /\ now = Instant(StartMinute, 1)
  /\ reminder_data = EmptyData
  /\ jobs = {}
  /\ created = 0
  /\ loaded = EmptyData
  /\ handlers = NoHandlers
  /\ data_file = json_dump(loaded)
  /\ InitCFixed
  /\ op \in ParseInputs

\* the first statements of add_command_task: parse, validate, format for display
ParseCommand ==
  /\ op.kind = "input"
  /\ LET parsed == parse_multi_command(op.raw)
         valid == validate_commands(parsed[2])
     IN op' = [kind |-> "parsed", form |-> op.form, raw |-> op.raw,
               command_part |-> op.command_part, hint |-> op.hint,
               label_text |-> op.label_text,
               display |-> format_command_display(parsed[1], parsed[2]),
               commands |-> parsed[2], custom_identifier |-> parsed[3],
               is_valid |-> valid[1], error_msg |-> valid[2]]
  /\ UNCHANGED << now, reminder_data, data_file, jobs, created, loaded, varsC, handlers, varsA >>

NextParse == ParseCommand

SpecParse == InitParse /\ [][NextParse]_vars


(***************************************************************************)
(* Properties of the command parser.                                       *)
(***************************************************************************)
Parsed == op.kind = "parsed"

\* C12 as stated: a command string without label part that holds "--" gives exactly one
\* command, its non-blank segments joined by single blanks; one without "--" gives
\* itself; the display command is the input and there is no label.
C12_AlwaysOneCommand ==
  (Parsed /\ ~str_in("----", op.raw)) =>
    /\ op.display = op.raw
    /\ op.custom_identifier = None
    /\ IF str_in("--", op.raw)
       THEN op.commands = << join(stripped_parts(split(op.raw, "--")), " ") >>
       ELSE op.commands = << op.raw >>

\* C12: as stated, except that a command string all of whose segments are blank gives
\* no command at all.
C12_OneCommandUnlessAllBlank ==
  (Parsed /\ ~str_in("----", op.raw)) =>
    /\ op.display = op.raw
    /\ op.custom_identifier = None
    /\ IF str_in("--", op.raw)
       THEN LET segments == stripped_parts(split(op.raw, "--"))
            IN IF segments = << >> THEN op.commands = << >>
               ELSE op.commands = << join(segments, " ") >>
       ELSE op.commands = << op.raw >>

C12_RmdLs ==
  /\ Parsed
  /\ op.raw = "/rmd--ls"
  /\ op.display = "/rmd--ls"
  /\ op.commands = << "/rmd ls" >>
  /\ op.custom_identifier = None

\* an input that reads in one way only as commandPart "----" positionHint "--" text
LabelForm ==
  /\ op.form = "labelled"
  /\ ~str_in("----", op.command_part)
  /\ ~(op.command_part # "" /\ Char(op.command_part, Len(op.command_part)) = "-")

\* the position a hint names
PositionOf(hint) ==
  IF str_in(MoWei, hint) \/ str_in(HouMian, hint)
     \/ str_in("end", lower(hint)) \/ str_in("after", lower(hint))
  THEN "end" ELSE "start"

\* C13 as stated: a labelled input gives the commands of its command part and the label
\* made of its text and of the position its hint names.
C13_LabelIsTextAndPosition ==
  (Parsed /\ LabelForm) =>
    /\ op.commands = parse_multi_command(op.command_part)[2]
    /\ op.custom_identifier =
         [text |-> op.label_text, position |-> PositionOf(op.hint)]

\* C13: a labelled input gives the commands of its trimmed command part and the label
\* made of the position its hint names and of its text cut at the first "--" and
\* trimmed.
C13_LabelIsCutTextAndPosition ==
  (Parsed /\ LabelForm) =>
    /\ op.commands = parse_multi_command(strip(op.command_part))[2]
    /\ op.custom_identifier =
         [text |-> strip(split(op.label_text, "--")[1]),
          position |-> PositionOf(op.hint)]

C13_UpperCaseEnd ==
  /\ Parsed
  /\ op.raw = "/rmd--ls----END--daily"
  /\ op.commands = << "/rmd ls" >>
  /\ op.custom_identifier = [text |-> "daily", position |-> "end"]

\* C14: the parsed commands are accepted exactly when there is at least one and each
\* starts with "/" and has at least two characters after it; a refusal comes with a
\* message.
C14_AcceptsOnlyTwoAfterMarker ==
  Parsed =>
    /\ op.is_valid <=>
         /\ op.commands # << >>
         /\ \A i \in 1..Len(op.commands) :
              StartsWith(op.commands[i], "/") /\ Len(op.commands[i]) - 1 >= 2
    /\ ~op.is_valid => op.error_msg # ""

\* C16 as stated: the display command is the input string.
C16_DisplayIsInput == Parsed => op.display = op.raw

\* C16: the display command is the input string when it has no label part, and else
\* what stands before the first "----", trimmed.
C16_DisplayIsCommandPart ==
  Parsed =>
    op.display = IF str_in("----", op.raw) THEN strip(split(op.raw, "----")[1])
                 ELSE op.raw

C16_LabelCutFromDisplay ==
  /\ Parsed
  /\ op.raw = "/rmd--ls----before--daily"
  /\ op.display = "/rmd--ls"

(***************************************************************************)
(* The add paths of command tasks.                                         *)
(***************************************************************************)
\* the number of command tasks added in one run, and the command strings typed
MaxCmdItems == 2
CmdInputs ==
  {"/rmd--ls", "/rmd", "/a", "/rmd--ls----end--daily", "rmd--ls", "--", "/", ""}

\* ItemBuilder.build_command_task_item and the dicts add_command_task and
\* _add_remote_item build; uid tells apart the dict objects
build_command_task_item(clean_display_command, commands, datetime_text, final_repeat, custom_identifier, uid) ==
  [text |-> clean_display_command, commands |-> commands, datetime |-> datetime_text,
   repeat |-> final_repeat, creator_id |-> Sender, is_task |-> TRUE,
   is_command_task |-> TRUE, custom_identifier |-> custom_identifier, uid |-> uid]

\* utils.get_platform_type_from_system(platform_id, context) when the host knows no
\* platform instance of that id: the type is read from the id
get_platform_type_from_system(platform_id) ==
  get_platform_type_from_origin(platform_id \o ":dummy:dummy")

\* CompatibilityHandler.is_compatible_origin(origin1, origin2)
is_compatible_origin(origin1, origin2) ==
  LET Typed(parts1, parts2, platform_type1, platform_type2) ==
        IF platform_type1 # platform_type2 THEN FALSE
        ELSE IF InSeq(parts1[1], v3_platform_names) /\ InSeq(parts2[1], v3_platform_names)
        THEN parts1[1] = parts2[1]
        ELSE TRUE
      Known(parts1, parts2, system1, system2) ==
        Typed(parts1, parts2,
              IF system1 = parts1[1] THEN get_platform_type_from_origin(origin1)
              ELSE system1,
              IF system2 = parts2[1] THEN get_platform_type_from_origin(origin2)
              ELSE system2)
      Parted(parts1, parts2) ==
        IF Len(parts1) < 3 \/ Len(parts2) < 3 THEN FALSE
        ELSE IF parts1[2] # parts2[2] \/ parts1[3] # parts2[3] THEN FALSE
        ELSE IF parts1[1] = parts2[1] THEN TRUE
        ELSE Known(parts1, parts2, get_platform_type_from_system(parts1[1]),
                   get_platform_type_from_system(parts2[1]))
  IN IF origin1 = origin2 THEN TRUE
     ELSE Parted(IF origin1 # "" /\ HasColon(origin1) THEN SplitOrigin(origin1) ELSE << >>,
                 IF origin2 # "" /\ HasColon(origin2) THEN SplitOrigin(origin2) ELSE << >>)

\* variant: a new key is written with the legacy name of its transport
ensure_key_exists_legacy_name(data, unified_msg_origin) ==
  LET parts == SplitOrigin(unified_msg_origin)
  IN IF Len(parts) < 3 THEN {unified_msg_origin}
     ELSE {get_platform_type_from_origin(unified_msg_origin)
             \o ":" \o parts[2] \o ":" \o parts[3]}

\* CompatibilityHandler.ensure_key_exists(unified_msg_origin): the keys it may return.
\* An equal key wins; among several compatible keys the first of the dict is taken,
\* which is any of them here
ensure_key_exists(data, unified_msg_origin) ==
  LET Found(compatible) == IF compatible # {} THEN compatible ELSE {unified_msg_origin}
  IN IF unified_msg_origin \in DOMAIN data THEN {unified_msg_origin}
     ELSE Found({key \in DOMAIN data : is_compatible_origin(key, unified_msg_origin)})

\* SessionHelper.build_remote_session_id(event, group_id, unique_session)
build_remote_session_id(raw_msg_origin, group_id, creator_id) ==
  LET Named(platform_name) ==
        IF config.unique_session
        THEN platform_name \o ":GroupMessage:" \o group_id \o "_" \o creator_id
        ELSE platform_name \o ":GroupMessage:" \o group_id
  IN Named(get_platform_type_from_origin(raw_msg_origin))

\* parse_multi_command and validate_commands applied to each typed command
CmdParsed == [command \in CmdInputs |-> parse_multi_command(command)]
CmdValid == [command \in CmdInputs |-> validate_commands(CmdParsed[command][2])]

\* what the add paths of a command task share: parse and validate the command, then
\* build the item, append it under actual_key, arm its timer and save
StoreCommandTask(actual_key, command, hm, repeat, opkind) ==
  LET parsed == CmdParsed[command]
      valid == CmdValid[command]
      clean_display_command == format_command_display(parsed[1], parsed[2])
      datetime_str == parse_datetime(hm, now)
      dt == strptime(datetime_str)
      item == build_command_task_item(clean_display_command, parsed[2], strftime(dt),
                                      repeat, parsed[3], created + 1)
      reminders == Append(DictGet(reminder_data, actual_key), item)
  IN /\ IF ~valid[1]
        THEN /\ op' = [kind |-> "rejected", dest |-> actual_key, index |-> 0, uid |-> 0,
                       raw |-> command, error_msg |-> valid[2]]
             /\ UNCHANGED << reminder_data, data_file, jobs, created >>
        ELSE /\ jobs' = add_job(jobs, actual_key, item, dt, Len(reminders) - 1)
             /\ Saved(DictSet(reminder_data, actual_key, reminders))
             /\ created' = created + 1
             /\ op' = [kind |-> opkind, dest |-> actual_key, index |-> 0,
                       uid |-> created + 1, raw |-> command]
     /\ UNCHANGED << now, loaded, varsC, handlers, varsA >>

\* add_command_task(event, command, time_str, week, repeat, holiday_type)
AddCommandTask(command, hm, repeat) ==
  /\ created < MaxCmdItems
  /\ StoreCommandTask(local_origin(LocalChat, Sender), command, hm, repeat, "add_command")

\* add_remote_command_task(event, group_id, command, time_str, ...)
AddRemoteCommandTask(group_id, command, hm, repeat) ==
  /\ created < MaxCmdItems
  /\ StoreCommandTask(remote_origin(PlatformName, group_id, Sender), command, hm, repeat,
                      "add_remote_command")

\* a group_id that process_add_item takes as "no group": None or the empty string
NoGroup == ""

\* UnifiedCommandProcessor.process_add_item(event, 'command_task', content, time_str,
\* ..., group_id), local when there is no group_id
ProcessAddItem(group_id, content, hm, repeat) ==
  LET msg_origin == IF group_id = NoGroup THEN local_origin(LocalChat, Sender)
                    ELSE build_remote_session_id(LocalChat, group_id, Sender)
  IN /\ created < MaxCmdItems
     /\ \E actual_key \in ensure_key_exists(reminder_data, msg_origin) :
          StoreCommandTask(actual_key, content, hm, repeat, "process_add_item")

NextCmd ==
  \/ \E command \in CmdInputs, hm \in TypedMinutes, repeat \in RepeatInputs :
       AddCommandTask(command, hm, repeat)
  \/ \E command \in CmdInputs, hm \in TypedMinutes, repeat \in RepeatInputs :
       AddRemoteCommandTask(OtherGroupId, command, hm, repeat)
  \/ \E group_id \in {NoGroup, OtherGroupId}, content \in CmdInputs, hm \in TypedMinutes,
        repeat \in RepeatInputs :
       ProcessAddItem(group_id, content, hm, repeat)
  \/ \E index \in 1..MaxCmdItems : RemoveLocal(index)
  \/ \E index \in 1..MaxCmdItems : RemoveRemote(OtherGroupId, index)
  \/ Tick

SpecCmd == InitStore /\ [][NextCmd]_vars

\* the items of the store
StoredItems ==
  UNION { {reminder_data[g][k] : k \in 1..Len(reminder_data[g])} : g \in DOMAIN reminder_data }

\* C15: every command task in the store has exactly one command, and it starts with
\* "/".
C15_StoredCommandsAreValid ==
  \A r \in StoredItems :
    Get(r, "is_command_task", FALSE) =>
      /\ Len(r.commands) = 1
      /\ StartsWith(r.commands[1], "/")

C15_RejectedAfterStored ==
  /\ op.kind = "rejected"
  /\ op.raw = "rmd--ls"
  /\ \E r \in StoredItems :
       /\ r.text = "/rmd--ls"
       /\ r.commands = << "/rmd ls" >>
       /\ r.custom_identifier = [text |-> "daily", position |-> "end"]


(***************************************************************************)
(* Properties of the forwarder's outbound messages.                        *)
(***************************************************************************)
HasLabel(r) == Get(r, "custom_identifier", None) # None
EmptyLabel(r) == HasLabel(r) /\ Get(r["custom_identifier"], "text", "") = ""
WithoutLabel(r) == [r EXCEPT !["custom_identifier"] = None]
Finished(i) == pc[i] \in {"done", "raised"}
CapturedSome(i) == result[i].ok /\ result[i].msgs # <<>>

\* C17: for an item whose label has an empty text, the failure notice and the messages
\* that forward the captured replies are the same, in the same order, as for the same
\* item with custom_identifier = None.
C17_EmptyLabelIsNoLabel ==
  \A i \in Invs :
    (pc[i] = "returned" /\ EmptyLabel(reminder[i])) =>
      /\ failure_text(reminder[i], FiredCommand)
           = failure_text(WithoutLabel(reminder[i]), FiredCommand)
      /\ forward_captured(result[i].msgs, reminder[i], dest[i], FiredCommand, i)
           = forward_captured(result[i].msgs, WithoutLabel(reminder[i]), dest[i],
                              FiredCommand, i)


\* chain holds the components cs, next to each other and in their order
Carries(chain, cs) ==
  \E a \in 0..(Len(chain) - Len(cs)) : SubSeq(chain, a + 1, a + Len(cs)) = cs

\* chain holds cs with a text component showing the label right in front of it
LabelBefore(chain, cs, label) ==
  \E a \in 1..(Len(chain) - Len(cs)) :
    /\ SubSeq(chain, a + 1, a + Len(cs)) = cs
    /\ chain[a].type = "Plain"
    /\ Contains(chain[a].text, label)

ShowsLabel(chain, label) ==
  \E a \in 1..Len(chain) : chain[a].type = "Plain" /\ Contains(chain[a].text, label)

PlatformOf(i) == get_platform_type_from_origin(get_original_session_id(dest[i]))

\* C18: when a firing that captured replies has finished, every captured reply, in
\* capture order, was delivered to the original destination in exactly one outbound
\* message of the forwarder; with a label at 'start' that message shows the label in
\* front of the reply, with a label at 'end' the message does not show it and the next
\* outbound message does.
C18_EachReplyForwardedOnce ==
  \A i \in Invs :
    (Finished(i) /\ CapturedSome(i)) =>
      LET F == ForwardedBy(i)
          msgs == result[i].msgs
          r == reminder[i]
          labelled == HasLabel(r) /\ ~EmptyLabel(r)
      IN \E idx \in [1..Len(msgs) -> 1..Len(F)] :
           /\ \A k, l \in 1..Len(msgs) : k < l => idx[k] < idx[l]
           /\ \A k \in 1..Len(msgs) :
                /\ F[idx[k]].to = get_original_session_id(dest[i])
                /\ \A j \in 1..Len(F) :
                     Carries(F[j].chain, chain_of(msgs[k])) <=> j = idx[k]
                /\ (labelled /\ label_position(r) = "start") =>
                     LabelBefore(F[idx[k]].chain, chain_of(msgs[k]),
                                 r["custom_identifier"]["text"])
                /\ (labelled /\ label_position(r) = "end") =>
                     /\ ~ShowsLabel(F[idx[k]].chain, r["custom_identifier"]["text"])
                     /\ idx[k] < Len(F)
                     /\ ShowsLabel(F[idx[k] + 1].chain, r["custom_identifier"]["text"])

HasVideo(cs) == \E a \in 1..Len(cs) : IsVideo(cs[a])
IsMention(c) == c.type = "At" \/ (c.type = "Plain" /\ StartsWith(c.text, "@"))
InChain(c, chain) == \E a \in 1..Len(chain) : chain[a] = c

\* C19: when a firing that captured replies has finished, a captured reply with a video
\* was sent on aiocqhttp as two outbound messages next to each other, one without any
\* video and one with nothing but video (and the mention), that together hold every
\* component of the reply; on any other platform, and for a reply without video, one
\* outbound message holds every component of the reply in order.
C19_VideoSplitOnlyOnQQ ==
  \A i \in Invs :
    (Finished(i) /\ CapturedSome(i)) =>
      LET F == ForwardedBy(i)
          msgs == result[i].msgs
      IN \A k \in 1..Len(msgs) :
           LET cs == chain_of(msgs[k])
           IN IF HasVideo(cs) /\ PlatformOf(i) = "aiocqhttp"
              THEN \E t, v \in 1..Len(F) :
                     /\ (v = t + 1 \/ t = v + 1)
                     /\ ~HasVideo(F[t].chain)
                     /\ \A a \in 1..Len(F[v].chain) :
                          IsVideo(F[v].chain[a]) \/ IsMention(F[v].chain[a])
                     /\ \A a \in 1..Len(cs) :
                          InChain(cs[a], F[t].chain) \/ InChain(cs[a], F[v].chain)
              ELSE \E j \in 1..Len(F) : Carries(F[j].chain, cs)

\* C20: when a firing has finished, and the mention policy is on, the destination is
\* not a one-to-one chat and the item has a creator id, the forwarder has sent outbound
\* messages and each of them starts with a mention of the creator; otherwise none of
\* its outbound messages starts with a mention, and for a one-to-one chat or with the
\* policy off none of them holds a mention anywhere.
C20_MentionExactlyWhenRequired ==
  \A i \in Invs :
    Finished(i) =>
      LET F == ForwardedBy(i)
          r == reminder[i]
      IN /\ needs_at(dest[i], r) =>
              /\ F # <<>>
              /\ \A j \in 1..Len(F) :
                   /\ F[j].chain # <<>>
                   /\ F[j].chain[1] = add_at_message(get_original_session_id(dest[i]), r)
         /\ ~needs_at(dest[i], r) =>
              \A j \in 1..Len(F) : F[j].chain # <<>> /\ ~IsMention(F[j].chain[1])
         /\ (is_private_chat(dest[i]) \/ ~config.enable_command_at) =>
              \A j \in 1..Len(F) : \A a \in 1..Len(F[j].chain) : ~IsMention(F[j].chain[a])

(***************************************************************************)
(* The arguments of the add commands: the time text, the starting weekday, *)
(* the recurrence and the holiday type.                                    *)
(***************************************************************************)
\* int(text): blanks around, one sign and decimal digits
Unsigned(s) ==
  LET Stripped(t) ==
        IF t # "" /\ Char(t, 1) \in {"+", "-"} THEN SubSeq(t, 2, Len(t)) ELSE t
  IN Stripped(strip(s))
int_raises(s) ==
  LET NotDigits(u) == u = "" \/ \E k \in 1..Len(u) : ~InSeq(Char(u, k), Digits)
  IN NotDigits(Unsigned(s))
RECURSIVE DigitsValue(_)
DigitsValue(u) ==
  IF u = "" THEN 0
  ELSE DigitsValue(SubSeq(u, 1, Len(u) - 1)) * 10
       + (CHOOSE d \in 0..9 : Digits[d + 1] = Char(u, Len(u)))
int(s) ==
  LET Signed(t, value) == IF Char(t, 1) = "-" THEN 0 - value ELSE value
  IN Signed(strip(s), DigitsValue(Unsigned(s)))

\* "时间格式错误，请使用 HH:MM 格式（如 8:05）或 HHMM 格式（如 0805）" and "时间超出范围"
TimeFormatMsg == "time format error, use HH:MM or HHMM"
TimeRangeMsg == "time out of range"

\* variant: the range test lets minute 60 pass
hour_minute_in_range_loose(hour, minute) ==
  0 <= hour /\ hour <= 23 /\ 0 <= minute /\ minute <= 60
\* `0 <= hour <= 23 and 0 <= minute <= 59`
hour_minute_in_range(hour, minute) ==
  0 <= hour /\ hour <= 23 /\ 0 <= minute /\ minute <= 59

\* parse_datetime(datetime_str) up to the range test: the hour and minute it reads, or
\* the ValueError it raises
parse_hour_minute(datetime_str) ==
  LET Ranged(hour, minute) ==
        IF ~hour_minute_in_range(hour, minute) THEN [ok |-> FALSE, error |-> TimeRangeMsg]
        ELSE [ok |-> TRUE, hm |-> hour * 60 + minute]
      Read(s, parts, colon, plain) ==
        IF ~colon /\ ~plain THEN [ok |-> FALSE, error |-> TimeFormatMsg]
        ELSE IF colon THEN Ranged(int(parts[1]), int(parts[2]))
        ELSE Ranged(int(SubSeq(s, 1, 2)), int(SubSeq(s, 3, 4)))
      Parted(s, parts) ==
        Read(s, parts,
             Len(parts) = 2 /\ ~int_raises(parts[1]) /\ ~int_raises(parts[2]),
             Len(s) = 4 /\ ~int_raises(SubSeq(s, 1, 2)) /\ ~int_raises(SubSeq(s, 3, 4)))
      Stripped(s) == Parted(s, split(s, ":"))
  IN Stripped(strip(datetime_str))

\* ParameterValidator.WEEK_MAP, REPEAT_TYPES and HOLIDAY_TYPES
WeekNames == << "mon", "tue", "wed", "thu", "fri", "sat", "sun" >>
WEEK_MAP(name) == (CHOOSE k \in 1..Len(WeekNames) : WeekNames[k] = name) - 1
REPEAT_TYPES == << "daily", "weekly", "monthly", "yearly" >>
HOLIDAY_TYPES == << "workday", "holiday" >>

\* "星期格式错误，可选值：mon,tue,wed,thu,fri,sat,sun", "重复类型错误，可选值：..." and
\* "节假日类型错误，可选值：..."
WeekMsg == "weekday error, one of mon,tue,wed,thu,fri,sat,sun"
RepeatMsg == "repeat type error, one of daily,weekly,monthly,yearly"
HolidayMsg == "holiday type error, one of workday,holiday"

\* str.split() without a separator: the words between blanks
split_words(s) == SelectSeq(split(s, " "), LAMBDA w : w # "")

\* ParameterValidator.validate_and_adjust_parameters(week, repeat, holiday_type), and
\* the same statements inlined in the add handlers of commands.py; an argument that
\* was not given is the empty text
validate_and_adjust_parameters(week, repeat, holiday_type) ==
  LET Typed(week1, repeat2, holiday2) ==
        IF repeat2 # "" /\ ~InSeq(lower(repeat2), REPEAT_TYPES)
        THEN [ok |-> FALSE, error |-> RepeatMsg]
        ELSE IF holiday2 # "" /\ ~InSeq(lower(holiday2), HOLIDAY_TYPES)
        THEN [ok |-> FALSE, error |-> HolidayMsg]
        ELSE [ok |-> TRUE, week |-> week1, repeat |-> repeat2, holiday_type |-> holiday2]
      Joined(week1, repeat1, holiday1, parts) ==
        IF repeat1 # "" /\ Len(parts) = 2 /\ InSeq(parts[2], HOLIDAY_TYPES)
        THEN Typed(week1, parts[1], parts[2])
        ELSE Typed(week1, repeat1, holiday1)
      Adjusted(week1, repeat1, holiday1) ==
        Joined(week1, repeat1, holiday1, split_words(repeat1))
      Weeked(low) ==
        LET bad_week == week # "" /\ ~InSeq(low, WeekNames)
            shifted == bad_week /\ (InSeq(low, REPEAT_TYPES) \/ InSeq(low, HOLIDAY_TYPES))
        IN IF bad_week /\ ~shifted THEN [ok |-> FALSE, error |-> WeekMsg]
           ELSE IF shifted
           THEN Adjusted("", week, IF repeat # "" THEN repeat ELSE holiday_type)
           ELSE Adjusted(week, repeat, holiday_type)
  IN Weeked(lower(week))

\* the days of a week, and datetime.weekday(): day 0 of the model's calendar is a Monday
WeekLength == 7
weekday(dt) == (dt.min \div DayMinutes) % WeekLength

\* DateTimeProcessor.adjust_datetime_for_week(dt, week), and the same statements
\* inlined in the add handlers of commands.py
adjust_datetime_for_week(dt, week) ==
  IF week # ""
  THEN LET target_weekday == WEEK_MAP(lower(week))
           current_weekday == weekday(dt)
           days_ahead == target_weekday - current_weekday
       IN Instant(dt.min + DayMinutes *
                    (IF days_ahead <= 0 THEN days_ahead + WeekLength ELSE days_ahead),
                  dt.sec)
  ELSE dt

\* DateTimeProcessor.build_final_repeat(repeat, holiday_type)
build_final_repeat(repeat, holiday_type) ==
  IF repeat # "" /\ holiday_type # "" THEN lower(repeat) \o "_" \o lower(holiday_type)
  ELSE IF repeat # "" THEN lower(repeat)
  ELSE "none"

(***************************************************************************)
(* The add commands with all their arguments.  Each handler checks its     *)
(* arguments, then appends the item, arms its timer and saves, without     *)
(* suspending before the save.                                             *)
(***************************************************************************)
MaxAdds == 1

\* the number of items read at start
LoadedCount ==
  LET RECURSIVE count(_)
      count(keys) == IF keys = {} THEN 0
                     ELSE LET key == CHOOSE k \in keys : TRUE
                          IN Len(loaded[key]) + count(keys \ {key})
  IN count(DOMAIN loaded)
\* adds are counted up to MaxAdds
MayAdd == created < LoadedCount + MaxAdds

\* "指令格式错误：{error_msg}"
CommandErrorMsg(error_msg) == "command format error: " \o error_msg

\* the first complaint of a handler about its arguments, "" when it has none.  The
\* command-task handlers of commands.py look at the command before the time,
\* process_add_item looks at it last
first_error(kind, content, time_str, week, repeat, holiday_type, command_first) ==
  LET Complaint(time, args, valid) ==
        IF command_first /\ ~valid[1] THEN CommandErrorMsg(valid[2])
        ELSE IF ~time.ok THEN time.error
        ELSE IF ~args.ok THEN args.error
        ELSE IF ~valid[1] THEN CommandErrorMsg(valid[2])
        ELSE ""
  IN Complaint(parse_hour_minute(time_str),
               validate_and_adjust_parameters(week, repeat, holiday_type),
               IF kind = "command" THEN validate_commands(parse_multi_command(content)[2])
               ELSE << TRUE, "" >>)

\* the item dict of an add whose arguments passed
checked_item(kind, content, dt, final_repeat, uid) ==
  LET Built(parsed) ==
        build_command_task_item(format_command_display(parsed[1], parsed[2]), parsed[2],
                                strftime(dt), final_repeat, parsed[3], uid)
  IN IF kind = "command" THEN Built(parse_multi_command(content))
     ELSE NewItem(kind, strftime(dt), final_repeat, uid)

\* what the add handlers share: one complaint and nothing else, or the item appended
\* under one of keys, its timer armed and the store saved
AddChecked(opkind, keys, kind, content, time_str, week, repeat, holiday_type, command_first) ==
  LET Refused(error) ==
        /\ op' = [kind |-> opkind, outcome |-> "rejected", replies |-> << error >>,
                  saved |-> FALSE, at |-> now, content |-> content,
                  time_str |-> time_str, week_arg |-> week, repeat_arg |-> repeat,
                  holiday_arg |-> holiday_type, week |-> week,
                  dest |-> "", index |-> 0, uid |-> 0]
        /\ UNCHANGED << reminder_data, data_file, jobs, created >>
      Stores(args, dt, item) ==
        \E actual_key \in keys :
          LET reminders == Append(DictGet(reminder_data, actual_key), item)
          IN /\ jobs' = add_job(jobs, actual_key, item, dt, Len(reminders) - 1)
             /\ Saved(DictSet(reminder_data, actual_key, reminders))
             /\ created' = created + 1
             /\ op' = [kind |-> opkind, outcome |-> "stored", replies |-> << "set" >>,
                       saved |-> TRUE, at |-> now, content |-> content,
                       time_str |-> time_str, week_arg |-> week,
                       repeat_arg |-> repeat, holiday_arg |-> holiday_type,
                       week |-> args.week, datetime |-> item.datetime,
                       dest |-> actual_key, index |-> 0, uid |-> created + 1]
      Timed(args, dt) ==
        Stores(args, dt,
               checked_item(kind, content, dt,
                            build_final_repeat(args.repeat, args.holiday_type), created + 1))
      Passed(args, datetime_str) ==
        Timed(args, adjust_datetime_for_week(strptime(datetime_str), args.week))
      Checked(error) ==
        IF error # "" THEN Refused(error)
        ELSE Passed(validate_and_adjust_parameters(week, repeat, holiday_type),
                    parse_datetime(parse_hour_minute(time_str).hm, now))
  IN /\ Checked(first_error(kind, content, time_str, week, repeat, holiday_type,
                            command_first))
     /\ UNCHANGED << now, loaded, varsC, handlers, varsA >>

\* ReminderCommands.add_reminder(event, text, time_str, week, repeat, holiday_type)
add_reminder(text, time_str, week, repeat, holiday_type) ==
  /\ MayAdd
  /\ AddChecked("add_reminder", {local_origin(LocalChat, Sender)}, "reminder", text,
                time_str, week, repeat, holiday_type, FALSE)

\* ReminderCommands.add_task(event, text, time_str, week, repeat, holiday_type)
add_task(text, time_str, week, repeat, holiday_type) ==
  /\ MayAdd
  /\ AddChecked("add_task", {local_origin(LocalChat, Sender)}, "task", text,
                time_str, week, repeat, holiday_type, FALSE)

\* ReminderCommands.add_command_task(event, command, time_str, week, repeat, holiday_type)
add_command_task(command, time_str, week, repeat, holiday_type) ==
  /\ MayAdd
  /\ AddChecked("add_command_task", {local_origin(LocalChat, Sender)}, "command", command,
                time_str, week, repeat, holiday_type, TRUE)

\* ReminderCommands.add_remote_reminder(event, group_id, text, time_str, ...)
add_remote_reminder(group_id, text, time_str, week, repeat, holiday_type) ==
  /\ MayAdd
  /\ AddChecked("add_remote_reminder", {remote_origin(PlatformName, group_id, Sender)},
                "reminder", text, time_str, week, repeat, holiday_type, FALSE)

\* ReminderCommands.add_remote_task(event, group_id, text, time_str, ...)
add_remote_task(group_id, text, time_str, week, repeat, holiday_type) ==
  /\ MayAdd
  /\ AddChecked("add_remote_task", {remote_origin(PlatformName, group_id, Sender)},
                "task", text, time_str, week, repeat, holiday_type, FALSE)

\* ReminderCommands.add_remote_command_task(event, group_id, command, time_str, ...)
add_remote_command_task(group_id, command, time_str, week, repeat, holiday_type) ==
  /\ MayAdd
  /\ AddChecked("add_remote_command_task", {remote_origin(PlatformName, group_id, Sender)},
                "command", command, time_str, week, repeat, holiday_type, TRUE)

\* item_type of process_add_item, as the kind of the item it builds
ItemKind(item_type) == IF item_type = "command_task" THEN "command" ELSE item_type

\* UnifiedCommandProcessor.process_add_item(event, item_type, content, time_str, week,
\* repeat, holiday_type, group_id)
process_add_item(item_type, content, time_str, week, repeat, holiday_type, group_id) ==
  LET msg_origin == IF group_id = NoGroup THEN local_origin(LocalChat, Sender)
                    ELSE build_remote_session_id(LocalChat, group_id, Sender)
  IN /\ MayAdd
     /\ AddChecked("process_add_item", ensure_key_exists(reminder_data, msg_origin),
                   ItemKind(item_type), content, time_str, week, repeat, holiday_type, FALSE)

(***************************************************************************)
(* Adds that name a starting weekday, typed on every day of a week before  *)
(* and after the time they name.                                           *)
(***************************************************************************)
\* 08:05 and 10:00 as minutes of the day
NowMinutes == {485, 600}
WeekNows ==
  { Instant(d * DayMinutes + m, s) : d \in 0..(WeekLength - 1), m \in NowMinutes, s \in {0, 1} }
WeekTimes == {"08:05", "1000"}
WeekInputs == {"mon", "tue", "wed", "thu", "fri", "sat", "sun", "Fri"}
ItemTypes == {"reminder", "task", "command_task"}

InitWeek ==
  /\ InitANone
  /\ now \in WeekNows
  /\ reminder_data = EmptyData
  /\ jobs = {}
  /\ created = 0
  /\ op = NoOp
  /\ loaded = EmptyData
  /\ handlers = NoHandlers
  /\ data_file = json_dump(loaded)
  /\ InitCFixed

NextWeek ==
  \/ \E time_str \in WeekTimes, week \in WeekInputs :
       add_reminder("x", time_str, week, "", "")
  \/ \E time_str \in WeekTimes, week \in WeekInputs :
       add_task("x", time_str, week, "weekly", "")
  \/ \E time_str \in WeekTimes, week \in WeekInputs :
       add_command_task("/rmd--ls", time_str, week, "", "")
  \/ \E time_str \in WeekTimes, week \in WeekInputs :
       add_remote_reminder(OtherGroupId, "x", time_str, week, "", "")
  \/ \E time_str \in WeekTimes, week \in WeekInputs :
       add_remote_task(OtherGroupId, "x", time_str, week, "weekly", "")
  \/ \E time_str \in WeekTimes, week \in WeekInputs :
       add_remote_command_task(OtherGroupId, "/rmd--ls", time_str, week, "", "")
  \/ \E item_type \in ItemTypes, time_str \in WeekTimes, week \in WeekInputs,
        group_id \in {NoGroup, OtherGroupId} :
       process_add_item(item_type, "/rmd--ls", time_str, week, "weekly", "", group_id)

SpecWeek == InitWeek /\ [][NextWeek]_vars

Stored == op.outcome = "stored"
DayOf(minute) == minute \div DayMinutes
MinuteOfDay(minute) == minute % DayMinutes

\* C21: an add that names a starting weekday W and a time HH:MM stores as first fireAt
\* the first instant after the day of the add that falls on weekday W at HH:MM: between
\* one and seven days ahead, one week ahead when W is the weekday of the add.
C21_NextWeekdayAfterToday ==
  (op.kind # "none" /\ "outcome" \in DOMAIN op /\ Stored /\ op.week # "") =>
    LET fire == op.datetime.min
        ahead == DayOf(fire) - DayOf(op.at.min)
    IN /\ MinuteOfDay(fire) = parse_hour_minute(op.time_str).hm
       /\ weekday(Instant(fire, 0)) = WEEK_MAP(lower(op.week))
       /\ ahead >= 1
       /\ ahead <= WeekLength

(***************************************************************************)
(* Destination keys in two spellings: lookups through CompatibilityHandler *)
(* and through the rmd commands.                                           *)
(***************************************************************************)
\* the same group chat under the legacy transport name and under a versioned instance
\* id of that transport, the same scope on another transport, and another group
LegacyChat == "aiocqhttp:GroupMessage:g1"
VersionedChat == "aiocqhttp-2:GroupMessage:g1"
ChatOrigins == {LegacyChat, VersionedChat, "telegram:GroupMessage:g1", "aiocqhttp:GroupMessage:g2"}

\* find_compatible_reminder_key(reminder_data, target_origin, handler): the keys it may
\* return, none for None.  An equal key wins; of several compatible keys the first of
\* the dict is returned, which is any of them here
find_compatible_reminder_key(data, target_origin) ==
  IF target_origin \in DOMAIN data THEN {target_origin}
  ELSE {key \in DOMAIN data : is_compatible_origin(key, target_origin)}

\* ReminderCommands.list_reminders(event) in the chat raw_msg_origin: the items it shows
list_reminders(raw_msg_origin) ==
  LET msg_origin == local_origin(raw_msg_origin, Sender)
      reminders == DictGet(reminder_data, msg_origin)
  IN /\ op' = [kind |-> "ls", dest |-> msg_origin, index |-> 0, uid |-> 0,
               listed |-> ListingOrder(reminders)]
     /\ UNCHANGED << now, reminder_data, data_file, jobs, created, loaded, varsC, handlers, varsA >>

\* ReminderCommands.remove_reminder(event, index) in the chat raw_msg_origin
remove_reminder(raw_msg_origin, index) ==
  LET msg_origin == local_origin(raw_msg_origin, Sender)
      reminders == DictGet(reminder_data, msg_origin)
      first == FirstMatching(jobs, "reminder_" \o msg_origin \o "_" \o ToStr(index - 1) \o "_")
  IN /\ IF reminders = <<>> \/ index < 1 \/ index > Len(reminders)
        THEN /\ op' = [kind |-> "rm", dest |-> msg_origin, index |-> index, uid |-> 0]
             /\ UNCHANGED << reminder_data, data_file, jobs >>
        ELSE /\ IF first = {} THEN UNCHANGED jobs
                ELSE \E job \in first : jobs' = remove_job(jobs, job.id)
             /\ Saved(DictSet(reminder_data, msg_origin,
                                             pop(reminders, index - 1)))
             /\ op' = [kind |-> "rm", dest |-> msg_origin, index |-> index,
                       uid |-> reminders[index].uid]
     /\ UNCHANGED << now, created, loaded, varsC, handlers, varsA >>

\* CompatibilityHandler.get_reminders(unified_msg_origin)
get_reminders(unified_msg_origin) ==
  /\ \E found \in IF find_compatible_reminder_key(reminder_data, unified_msg_origin) = {}
                  THEN {<<>>}
                  ELSE {reminder_data[key] :
                          key \in find_compatible_reminder_key(reminder_data,
                                                               unified_msg_origin)} :
       op' = [kind |-> "get_reminders", dest |-> unified_msg_origin, index |-> 0,
              uid |-> 0, listed |-> found]
  /\ UNCHANGED << now, reminder_data, data_file, jobs, created, loaded, varsC, handlers, varsA >>

\* CompatibilityHandler.remove_reminder(unified_msg_origin, index), index counted from 0
handler_remove_reminder(unified_msg_origin, index) ==
  LET keys == find_compatible_reminder_key(reminder_data, unified_msg_origin)
  IN /\ IF keys = {}
        THEN /\ op' = [kind |-> "handler_rm", dest |-> unified_msg_origin,
                       index |-> index, uid |-> 0]
             /\ UNCHANGED << reminder_data, data_file >>
        ELSE \E compatible_key \in keys :
               LET reminders == reminder_data[compatible_key]
               IN IF index < 0 \/ index >= Len(reminders)
                  THEN /\ op' = [kind |-> "handler_rm", dest |-> unified_msg_origin,
                                 index |-> index, uid |-> 0]
                       /\ UNCHANGED << reminder_data, data_file >>
                  ELSE /\ op' = [kind |-> "handler_rm", dest |-> unified_msg_origin,
                                 index |-> index, uid |-> reminders[index + 1].uid]
                       /\ reminder_data' =
                            DictSet(reminder_data, compatible_key, pop(reminders, index))
                       /\ UNCHANGED data_file
     /\ UNCHANGED << now, jobs, created, loaded, varsC, handlers, varsA >>

\* CompatibilityHandler.ensure_key_exists(unified_msg_origin) as a call: the key it
\* returns and what it does to the store
EnsureKeyExists(unified_msg_origin) ==
  /\ \E target_key \in ensure_key_exists(reminder_data, unified_msg_origin) :
       /\ UNCHANGED data_file
       /\ reminder_data' = IF target_key \in DOMAIN reminder_data THEN reminder_data
                           ELSE DictSet(reminder_data, target_key, <<>>)
       /\ op' = [kind |-> "ensure_key_exists", dest |-> unified_msg_origin, index |-> 0,
                 uid |-> 0, target_key |-> target_key]
  /\ UNCHANGED << now, jobs, created, loaded, varsC, handlers, varsA >>

MaxCompatItems == 2
\* the items a destination holds at start: recurring, so that no save purges them
CompatItems(n) ==
  [k \in 1..n |-> NewItem("reminder", strftime(Instant(0, 0)), "daily", k)]
\* the timers of the items the store holds under key
CompatJobs(key, n) ==
  { [id |-> JobId(key, k - 1, k), run |-> Instant(DayMinutes, 0), uid |-> k] : k \in 1..n }

\* the store holds items under one spelling of the group chat, or nothing
InitCompat ==
  /\ InitANone
  /\ now = Instant(StartMinute, 1)
  /\ \E key \in {LegacyChat, VersionedChat}, n \in 0..MaxCompatItems :
       /\ reminder_data = IF n = 0 THEN EmptyData ELSE DictSet(EmptyData, key, CompatItems(n))
       /\ jobs = CompatJobs(key, n)
       /\ created = n
  /\ op = NoOp
  /\ loaded = reminder_data
  /\ handlers = NoHandlers
  /\ data_file = json_dump(loaded)
  /\ InitCFixed

NextCompat ==
  \/ \E o \in ChatOrigins : list_reminders(o)
  \/ \E o \in ChatOrigins, index \in 1..MaxCompatItems : remove_reminder(o, index)
  \/ \E o \in ChatOrigins : get_reminders(o)
  \/ \E o \in ChatOrigins, index \in 0..(MaxCompatItems - 1) : handler_remove_reminder(o, index)
  \/ \E o \in ChatOrigins : EnsureKeyExists(o)

SpecCompat == InitCompat /\ [][NextCompat]_vars

\* the items stored under the keys that are equal to or compatible with origin
SameDestinationKeys(data, origin) ==
  {key \in DOMAIN data : is_compatible_origin(key, origin)}

\* C22: a lookup issued with one spelling of a destination works on the items stored
\* under the other: get_reminders and /rmd ls show the items of a key compatible with
\* the spelling used, and /rmd rm and the handler's removal with a valid number remove
\* an item of such a key.
C22_Step ==
  LET keys == SameDestinationKeys(reminder_data, op'.dest)
      holding == {key \in keys : reminder_data[key] # <<>>}
  IN /\ (op'.kind \in {"ls", "get_reminders"} /\ holding # {}) =>
          \E key \in holding : op'.listed = ListingOrder(reminder_data[key])
     /\ (op'.kind = "rm" /\ \E key \in holding : op'.index <= Len(reminder_data[key])) =>
          op'.uid # 0
     /\ (op'.kind = "handler_rm"
           /\ \E key \in holding : op'.index < Len(reminder_data[key])) =>
          op'.uid # 0

C22_OneDestinationTwoSpellings == [][C22_Step]_vars

\* C23: a call ensure_key_exists(K) returns K itself when K is a stored key; when no
\* stored key is equal to or compatible with K it creates the key K, as given, with an
\* empty list and returns it; when a compatible key is stored it returns such a key and
\* creates none; every other key and every list stay as they are.
C23_Step ==
  LET K == op'.dest
      same == SameDestinationKeys(reminder_data, K)
  IN op'.kind = "ensure_key_exists" =>
       /\ K \in DOMAIN reminder_data => op'.target_key = K
       /\ same = {} =>
            /\ op'.target_key = K
            /\ DOMAIN reminder_data' = DOMAIN reminder_data \cup {K}
            /\ reminder_data'[K] = <<>>
       /\ same # {} =>
            /\ op'.target_key \in same
            /\ DOMAIN reminder_data' = DOMAIN reminder_data
       /\ \A key \in DOMAIN reminder_data : reminder_data'[key] = reminder_data[key]

C23_EnsureKeyNeverRewrites == [][C23_Step]_vars

\* the versioned spelling was created as given, next to a key of another transport, and
\* a later call with the legacy spelling got the versioned key back
C23_VersionedKeyKeptAsGiven ==
  /\ op.kind = "ensure_key_exists"
  /\ op.dest = LegacyChat
  /\ op.target_key = VersionedChat
  /\ DOMAIN reminder_data = {VersionedChat, "telegram:GroupMessage:g1"}
  /\ reminder_data[VersionedChat] = <<>>

(***************************************************************************)
(* Adds with good and bad arguments, on an empty store and on a store that *)
(* holds an item.                                                          *)
(***************************************************************************)
GoodTimes == {"08:05", "0805", " 8:5 "}
BadTimes == {"24:00", "12:60", "ab", "08:05:00", "805", ""}
BadWeeks == {"xyz"}
BadRepeats == {"hourly"}
BadHolidays == {"fest"}
BadCommands == {"rmd--ls", "--", "/"}
\* time, weekday, recurrence and holiday type as typed: a good combination, the same
\* with one argument made bad, and one with every argument bad
CoreArgs ==
  { << "08:05", "fri", "daily", "holiday" >>, << "12:60", "fri", "daily", "holiday" >>,
    << "08:05", "xyz", "daily", "holiday" >>, << "08:05", "fri", "hourly", "" >>,
    << "08:05", "", "daily", "fest" >>, << "ab", "xyz", "hourly", "fest" >> }
\* and more of them: the other spellings of a time, arguments in capitals, a weekday
\* place that holds the recurrence, a recurrence that holds the holiday type
AddArgs ==
  CoreArgs
  \cup { << t, "", "", "" >> : t \in GoodTimes \cup BadTimes }
  \cup { << "08:05", "Fri", "Weekly", "Workday" >>, << "08:05", "daily", "holiday", "" >>,
         << "08:05", "", "daily workday", "" >>, << "08:05", "", "daily fest", "" >>,
         << "08:05", "daily", "daily", "holiday" >> }
AddCommands == {"/rmd--ls", "rmd--ls", "--", "/"}

InitAdd ==
  /\ InitANone
  /\ now = Instant(StartMinute, 1)
  /\ \E n \in 0..1 :
       /\ reminder_data = IF n = 0 THEN EmptyData
                          ELSE DictSet(EmptyData, LegacyChat, CompatItems(n))
       /\ jobs = CompatJobs(LegacyChat, n)
       /\ created = n
  /\ op = NoOp
  /\ loaded = reminder_data
  /\ handlers = NoHandlers
  /\ data_file = json_dump(loaded)
  /\ InitCFixed

NextAdd ==
  \/ \E a \in AddArgs : add_reminder("x", a[1], a[2], a[3], a[4])
  \/ \E a \in CoreArgs : add_task("x", a[1], a[2], a[3], a[4])
  \/ \E a \in CoreArgs, command \in AddCommands :
       add_command_task(command, a[1], a[2], a[3], a[4])
  \/ \E a \in CoreArgs : add_remote_reminder(OtherGroupId, "x", a[1], a[2], a[3], a[4])
  \/ \E a \in CoreArgs : add_remote_task(OtherGroupId, "x", a[1], a[2], a[3], a[4])
  \/ \E a \in CoreArgs, command \in {"/rmd--ls", "--"} :
       add_remote_command_task(OtherGroupId, command, a[1], a[2], a[3], a[4])
  \/ \E a \in CoreArgs, item_type \in ItemTypes, group_id \in {NoGroup, OtherGroupId} :
       process_add_item(item_type, IF a[3] = "hourly" THEN "--" ELSE "/rmd--ls",
                        a[1], a[2], a[3], a[4], group_id)

SpecAdd == InitAdd /\ [][NextAdd]_vars

AddKinds ==
  {"add_reminder", "add_task", "add_command_task", "add_remote_reminder",
   "add_remote_task", "add_remote_command_task", "process_add_item"}
\* the handlers that take a command as their first argument
TakesCommand(o) == o.kind \in {"add_command_task", "add_remote_command_task"}
\* the arguments of the add are bad: a time that is no HH:MM or HHMM or is out of
\* range, a weekday, recurrence or holiday token that is none, a command that does not
\* start with "/" or is empty
BadArguments(o) ==
  \/ o.time_str \in BadTimes
  \/ o.week_arg \in BadWeeks
  \/ o.repeat_arg \in BadRepeats
  \/ o.holiday_arg \in BadHolidays
  \/ (TakesCommand(o) /\ o.content \in BadCommands)

\* C24: an add with a bad argument is refused, and an add that is refused answers with
\* exactly one message, runs no save and leaves the store, the data file and the timers
\* as they were.
C24_Step ==
  op'.kind \in AddKinds =>
    /\ BadArguments(op') => op'.outcome = "rejected"
    /\ op'.outcome = "rejected" =>
         /\ Len(op'.replies) = 1
         /\ op'.replies[1] # ""
         /\ ~op'.saved
         /\ reminder_data' = reminder_data
         /\ data_file' = data_file
         /\ jobs' = jobs
         /\ created' = created

C24_ValidationErrorChangesNothing == [][C24_Step]_vars

\* process_add_item refused a bad weekday with the weekday message, and the item and
\* the timer that were there are still there
C24_BadWeekdayRefused ==
  /\ op.kind = "process_add_item"
  /\ op.outcome = "rejected"
  /\ op.week_arg = "xyz"
  /\ op.time_str = "08:05"
  /\ op.replies = << WeekMsg >>
  /\ reminder_data = loaded
  /\ reminder_data # EmptyData
  /\ jobs = CompatJobs(LegacyChat, 1)

(***************************************************************************)
(* Overlapping firings.                                                    *)
(***************************************************************************)
\* the capture of call i is in flight: its event is submitted and the call still polls
InFlight(i) == pc[i] = "sleeping"

\* C25: while the capture of a firing is in flight, no restore of another firing has
\* taken its shim away (the send of its event is its shim, and the bot's call_action,
\* when its event has one, is a shim), and once every firing has returned the sends of
\* the events and the bot's call_action are the original ones.
C25_RestoreKeepsOthersShim ==
  /\ \A i \in Invs :
       InFlight(i) =>
         /\ evSend[i] = intercepted_send(inst[i], i)
         /\ evBot[i] => IsShim(botCall)
  /\ (\A i \in Invs : Returned(i)) =>
       /\ \A i \in Invs : Created(i) => evSend[i] = EventSend(i)
       /\ botCall = BotCallAction


(***************************************************************************)
(* Replies that come after the wait has given up.                          *)
(***************************************************************************)
\* the handler of event e makes a reply in this step
Replies(e) == sent'[e] = sent[e] + 1
\* the firing of e gave up waiting and trigger_and_forward_command is over
GaveUp(e) == outcome[e] = "timeout" /\ pc[e] \in {"done", "raised"}

\* C26: a reply the handler makes after the wait for its event timed out and the
\* firing is over makes no error, enters no buffer and goes to the platform as the
\* event's own message, and the one failure notice of the firing went out before it.
C26_Step ==
  \A e \in Invs :
    (GaveUp(e) /\ Replies(e)) =>
      /\ lastCall' = [ev |-> e, via |-> lastCall'.via, ret |-> "platform"]
      /\ captured_messages' = captured_messages
      /\ delivered' = Append(delivered,
                             Delivery(dest[e], << Reply(e, sent'[e]) >>, "host", e))
      /\ Len(ForwardedBy(e)) = 1

C26_LateReplyIsNormalMessage == [][C26_Step]_vars


(***************************************************************************)
(* Command handlers as coroutines of one event loop.  A handler runs from  *)
(* one suspension point to the next; another handler runs only while every *)
(* handler that is under way stands at a suspension point.                 *)
(***************************************************************************)
\* variant: a handler can be suspended wherever it stands
is_suspension_point_anywhere(position) == TRUE
\* where remove_reminder and add_reminder give way to the event loop: before they are
\* called, at `await provider.text_chat(...)` and at a `yield` of a reply.  After the
\* bounds check ("checked") the handler goes on to the pop and to save_reminder_data,
\* which holds no await, without giving way.
is_suspension_point(position) == position \in {"idle", "text_chat", "replying"}

\* handler h is the one the event loop can run
CanRun(h) == \A k \in Handlers \ {h} : is_suspension_point(handlers[k].pc)

\* remove_reminder from its call to the bounds check
RemoveCheck(h, index) ==
  /\ CanRun(h)
  /\ handlers[h].pc = "idle"
  /\ LET msg_origin == local_origin(LocalChat, Sender)
         reminders == DictGet(reminder_data, msg_origin)
     IN IF reminders = << >> \/ index < 1 \/ index > Len(reminders)
        THEN \* "没有设置任何提醒或任务。" or "序号无效。"
             handlers' = [handlers EXCEPT ![h] =
                            [NoHandler EXCEPT !.pc = "replying", !.dest = msg_origin,
                                              !.index = index]]
        ELSE handlers' = [handlers EXCEPT ![h] =
                            [pc |-> "checked", dest |-> msg_origin, index |-> index,
                             seen |-> reminders, uid |-> 0]]
  /\ UNCHANGED << now, reminder_data, data_file, jobs, created, op, loaded, varsC, varsA >>

\* remove_reminder from the bounds check to `await provider.text_chat(...)`: the timer
\* search, the pop and the save
RemovePop(h) ==
  /\ CanRun(h)
  /\ handlers[h].pc = "checked"
  /\ LET msg_origin == handlers[h].dest
         index == handlers[h].index
         reminders == DictGet(reminder_data, msg_origin)
         first == FirstMatching(jobs, "reminder_" \o msg_origin \o "_" \o ToStr(index - 1) \o "_")
     IN IF index > Len(reminders)
        THEN \* pop raises IndexError
             /\ handlers' = [handlers EXCEPT ![h] = NoHandler]
             /\ op' = [kind |-> "rm_raised", dest |-> msg_origin, index |-> index, uid |-> 0]
             /\ UNCHANGED << reminder_data, data_file, jobs >>
        ELSE /\ IF first = {} THEN UNCHANGED jobs
                ELSE \E job \in first : jobs' = remove_job(jobs, job.id)
             /\ Saved(DictSet(reminder_data, msg_origin,
                                             pop(reminders, index - 1)))
             /\ op' = [kind |-> "rm", dest |-> msg_origin, index |-> index,
                       uid |-> reminders[index].uid]
             /\ handlers' = [handlers EXCEPT ![h].pc = "text_chat",
                                             ![h].uid = reminders[index].uid]
  /\ UNCHANGED << now, created, loaded, varsC, varsA >>

\* the answer of the provider arrives and the handler yields its reply
RemoveAnswered(h) ==
  /\ CanRun(h)
  /\ handlers[h].pc = "text_chat"
  /\ handlers' = [handlers EXCEPT ![h].pc = "replying"]
  /\ UNCHANGED << now, reminder_data, data_file, jobs, created, op, loaded, varsC, varsA >>

\* add_reminder, add_task or add_command_task from its call to the yield of its reply
AddStored(h, kind, hm, repeat) ==
  /\ CanRun(h)
  /\ handlers[h].pc = "idle"
  /\ created < MaxItems
  /\ LET msg_origin == local_origin(LocalChat, Sender)
         dt == strptime(parse_datetime(hm, now))
         item == NewItem(kind, strftime(dt), repeat, created + 1)
         reminders == Append(DictGet(reminder_data, msg_origin), item)
     IN /\ jobs' = add_job(jobs, msg_origin, item, dt, Len(reminders) - 1)
        /\ Saved(DictSet(reminder_data, msg_origin, reminders))
        /\ op' = [kind |-> "add", dest |-> msg_origin, index |-> 0, uid |-> created + 1]
        /\ handlers' = [handlers EXCEPT ![h] =
                          [NoHandler EXCEPT !.pc = "replying", !.dest = msg_origin,
                                            !.uid = created + 1]]
  /\ created' = created + 1
  /\ UNCHANGED << now, loaded, varsC, varsA >>

\* the reply is sent and the handler ends
Replied(h) ==
  /\ CanRun(h)
  /\ handlers[h].pc = "replying"
  /\ handlers' = [handlers EXCEPT ![h] = NoHandler]
  /\ UNCHANGED << now, reminder_data, data_file, jobs, created, op, loaded, varsC, varsA >>

\* time passes while handlers are under way
TickTurns ==
  /\ now.min <= MaxMinute
  /\ now' = IF now.sec = 0 THEN Instant(now.min, 1) ELSE Instant(now.min + 1, 0)
  /\ UNCHANGED << reminder_data, data_file, jobs, created, op, loaded, varsC, handlers, varsA >>

NextTurns ==
  \/ \E h \in Handlers, index \in 1..MaxItems : RemoveCheck(h, index)
  \/ \E h \in Handlers : RemovePop(h)
  \/ \E h \in Handlers : RemoveAnswered(h)
  \/ \E h \in Handlers, a \in AddInputs, hm \in TypedMinutes : AddStored(h, a[1], hm, a[2])
  \/ \E h \in Handlers : Replied(h)
  \/ TickTurns

SpecTurns == InitStore /\ [][NextTurns]_vars

\* every uid of the store, destination by destination
StoreUids(data) == [g \in DOMAIN data |-> Uids(data[g])]
AllItems(data) == UNION { { data[g][k] : k \in 1..Len(data[g]) } : g \in DOMAIN data }
\* the item objects of data number exactly its list entries: none is held twice
NoneTwice(data) ==
  \A g \in DOMAIN data : \A j, k \in 1..Len(data[g]) :
    data[g][j].uid = data[g][k].uid => j = k

\* C27: with handlers interleaved at their suspension points, a removal pops the list
\* its bounds check saw, at the position it checked, and takes out that item and the
\* expired one-shot items only; an add appends one new item; no step loses another
\* item or holds one twice.
C27_Step ==
  /\ \A h \in Handlers :
       (handlers[h].pc = "checked" /\ handlers'[h].pc # "checked") =>
         /\ DictGet(reminder_data, handlers[h].dest) = handlers[h].seen
         /\ op'.kind = "rm"
         /\ handlers'[h].uid = handlers[h].seen[handlers[h].index].uid
         /\ DictGet(reminder_data', handlers[h].dest) =
              SelectSeq(WithoutPosition(handlers[h].seen, handlers[h].index),
                        LAMBDA r : ~ExpiredOneShot(r, now))
  /\ NoneTwice(reminder_data')
  /\ \A r \in AllItems(reminder_data) \ AllItems(reminder_data') :
       \/ ExpiredOneShot(r, now)
       \/ (op'.kind = "rm" /\ op'.uid = r.uid)
  /\ \A r \in AllItems(reminder_data') \ AllItems(reminder_data) :
       op'.kind = "add" /\ r.uid = created' /\ created' = created + 1

C27_IndicesValidAcrossTurns == [][C27_Step]_vars

\* two removals under way at once: the first took item 1 at number 1 and waits for the
\* provider, the second then took item 2 at number 1, and item 3 is what is left
C27_TwoRemovalsInTurn ==
  /\ handlers[1] = [pc |-> "text_chat", dest |-> LocalChat, index |-> 1,
                    seen |-> handlers[1].seen, uid |-> 1]
  /\ handlers[2].pc = "text_chat"
  /\ handlers[2].index = 1
  /\ handlers[2].uid = 2
  /\ Uids(handlers[1].seen) = << 1, 2, 3 >>
  /\ Uids(handlers[2].seen) = << 2, 3 >>
  /\ Uids(DictGet(reminder_data, LocalChat)) = << 3 >>


(***************************************************************************)
(* The data file: what a start of the plugin reads and what a save writes. *)
(***************************************************************************)
MaxFileItems == 2
\* the records a data file may hold: a one-shot reminder still to come and one that is
\* past, a recurring command task with a custom identifier and one without, and
\* records whose datetime is absent, blank or null
FileItems ==
  { NewItem("reminder", strftime(Instant(MaxMinute, 0)), "none", 1),
    NewItem("reminder", strftime(Instant(0, 0)), "none", 2),
    build_command_task_item("/rmd--ls", << "/rmd ls" >>, strftime(Instant(0, 0)),
                            "daily", [text |-> "note", position |-> "end"], 3),
    build_command_task_item("/rmd--ls", << "/rmd ls" >>, strftime(Instant(MaxMinute, 0)),
                            "weekly_workday", None, 4),
    [text |-> "x", repeat |-> "daily", creator_id |-> Sender, is_task |-> FALSE, uid |-> 5],
    [text |-> "x", datetime |-> EmptyText, repeat |-> "none", uid |-> 6],
    [text |-> "x", datetime |-> None, repeat |-> "daily", uid |-> 7] }
FileLists == UNION { [1..n -> FileItems] : n \in 1..MaxFileItems }
\* the stores whose dump a data file may be
FileStores ==
  { EmptyData }
  \cup { DictSet(EmptyData, LocalChat, l) : l \in FileLists }
  \cup { DictSet(DictSet(EmptyData, LocalChat, l), OtherGroupOrigin,
                 << NewItem("task", strftime(Instant(0, 0)), "none", 8) >>) :
           l \in FileLists }

\* the plugin has started: it read the data file, which it made if there was none
InitLoad ==
  /\ InitANone
  /\ now \in { Instant(StartMinute, 0), Instant(StartMinute, 1) }
  /\ \E file \in { NoFile } \cup { json_dump(m) : m \in FileStores } :
       /\ data_file = file_after_load(file)
       /\ reminder_data = load_reminder_data(file)
  /\ InitCFixed
  /\ jobs = {}
  /\ created = 0
  /\ op = NoOp
  /\ loaded = reminder_data
  /\ handlers = NoHandlers

\* save_reminder_data(self.data_file, self.reminder_data); again tells that the save
\* before it was the latest operation, at the same instant
SaveAll ==
  /\ Saved(reminder_data)
  /\ op' = [kind |-> "save", dest |-> "", index |-> 0, uid |-> 0, at |-> now,
            again |-> (op.kind = "save" /\ op.at = now)]
  /\ UNCHANGED << now, jobs, created, loaded, varsC, handlers, varsA >>

\* the plugin starts again: self.reminder_data = load_reminder_data(self.data_file)
LoadAll ==
  /\ reminder_data' = load_reminder_data(data_file)
  /\ data_file' = file_after_load(data_file)
  /\ op' = [kind |-> "load", dest |-> "", index |-> 0, uid |-> 0, at |-> now,
            after |-> op.kind]
  /\ UNCHANGED << now, jobs, created, loaded, varsC, handlers, varsA >>

NextLoad ==
  \/ SaveAll
  \/ LoadAll
  \/ Tick

SpecLoad == InitLoad /\ [][NextLoad]_vars

\* C28: a load that follows a save yields, destination by destination, the items the
\* save kept, in their order and with every field as it was; and no load yields a
\* record whose datetime is absent, blank or null.
C28_Step ==
  op'.kind = "load" =>
    /\ op.kind = "save" => reminder_data' = reminder_data
    /\ \A r \in AllItems(reminder_data') : ~NoFireAt(r)

C28_RoundTripDropsCorrupt == [][C28_Step]_vars

\* C29: a save that follows a save at the same instant, with nothing in between,
\* leaves the store and the data file as the first save left them.
C29_Step ==
  (op.kind = "save" /\ op'.kind = "save" /\ op'.again) =>
    /\ reminder_data' = reminder_data
    /\ data_file' = data_file

C29_SecondPurgeChangesNothing == [][C29_Step]_vars

\* the second of two saves in a row has run, on a store from which the first one took
\* an expired one-shot reminder and a record without datetime
C29_SavedTwice ==
  /\ op.kind = "save"
  /\ op.again
  /\ LocalChat \in DOMAIN loaded
  /\ Uids(loaded[LocalChat]) = << 2, 5 >>
  /\ reminder_data = EmptyData
  /\ data_file = json_dump(EmptyData)


(***************************************************************************)
(* Firings.                                                                *)
(***************************************************************************)
\* the timers of item uid among js
TimersOf(js, uid) == { j \in js : j.uid = uid }
\* a timer fires in this step
FireStep == op'.kind = "fire" /\ (op' # op \/ jobs' # jobs)

\* C30: a timer that fires was armed and due, and no timer of its item is left for
\* that time or an earlier one, so that it fires once for the time it was armed for;
\* whether or not the action raised an error, a recurring item is in the store with
\* its next time and one timer armed for it, a one-shot item is gone from the store
\* and has no timer; and the timers of the other items are armed as before.
C30_Step ==
  FireStep =>
    LET uid == op'.uid
        recurring == \E r \in ItemOf(reminder_data, uid) : Get(r, "repeat", "none") # "none"
    IN /\ \E j \in jobs : j.uid = uid /\ j.run = op'.run /\ ~Before(now, j.run)
       /\ \A j \in TimersOf(jobs', uid) : Before(op'.run, j.run)
       /\ jobs' \ TimersOf(jobs', uid) = jobs \ TimersOf(jobs, uid)
       /\ recurring =>
            \E j \in jobs' :
              /\ TimersOf(jobs', uid) = {j}
              /\ \E r \in ItemOf(reminder_data', uid) : r["datetime"] = strftime(j.run)
       /\ ~recurring =>
            /\ TimersOf(jobs', uid) = {}
            /\ ItemOf(reminder_data', uid) = {}

C30_FiresOnceThenRearmsOrRetires == [][C30_Step]_vars

\* the action of a daily task raised an error, the task is armed for the next day,
\* and the timer of another item is still armed
C30_RearmedAfterError ==
  /\ op.kind = "fire"
  /\ op.raised
  /\ \E j \in jobs : j.uid = op.uid /\ j.run = Instant(op.run.min + DayMinutes, 0)
  /\ \E r \in ItemOf(reminder_data, op.uid) : r.repeat = "daily"
  /\ \E j \in jobs : j.uid # op.uid

(***************************************************************************)
(* PART C.  The holiday oracle: HolidayManager of utils.py.                *)
(*                                                                         *)
(* A date is a day count from Monday 2024-01-01.  The oracle reads the     *)
(* year and the "%m-%d" text of a date and looks the text up in the data   *)
(* of that year, which it fetches once and keeps.                          *)
(***************************************************************************)
Epoch == [year |-> 2024, weekday |-> 0]
IsLeap(year) == (year % 4 = 0 /\ year % 100 # 0) \/ year % 400 = 0
YearDays(year) == IF IsLeap(year) THEN 366 ELSE 365
MonthDays(year) ==
  << 31, IF IsLeap(year) THEN 29 ELSE 28, 31, 30, 31, 30, 31, 31, 30, 31, 30, 31 >>

\* date.year and the day of that year, counted from 0
RECURSIVE YearAndDay(_, _)
YearAndDay(year, day) ==
  IF day < YearDays(year) THEN << year, day >> ELSE YearAndDay(year + 1, day - YearDays(year))
date_year(date) == YearAndDay(Epoch.year, date)[1]

\* the month and the day of the month, both counted from 1
RECURSIVE MonthAndDay(_, _, _)
MonthAndDay(lengths, month, day) ==
  IF day < lengths[month] THEN << month, day + 1 >>
  ELSE MonthAndDay(lengths, month + 1, day - lengths[month])

\* "%02d"
TwoDigits(n) == IF n < 10 THEN "0" \o ToStr(n) ELSE ToStr(n)
\* date.strftime("%m-%d")
short_date_str(date) ==
  LET Texted(md) == TwoDigits(md[1]) \o "-" \o TwoDigits(md[2])
      Split(yd) == Texted(MonthAndDay(MonthDays(yd[1]), 1, yd[2]))
  IN Split(YearAndDay(Epoch.year, date))
\* the dates of the model's three years, with the year and the "%m-%d" text of each
Dates == 0..(YearDays(Epoch.year) + YearDays(Epoch.year + 1) + YearDays(Epoch.year + 2) - 1)
DateYears == [date \in Dates |-> date_year(date)]
DateTexts == [date \in Dates |-> short_date_str(date)]
\* date.weekday(): 0 is Monday
date_weekday(date) == (Epoch.weekday + date) % WeekLength

\* what the holiday API may answer: a status other than 200, a result code other than
\* 0, an exception of the transport or of the decoding, or the special days of the year
BadStatus == [kind |-> "status", status |-> 503]
BadCode == [kind |-> "json", code |-> 1]
FetchRaises == [kind |-> "raises"]
Answer(holiday) == [kind |-> "json", code |-> 0, holiday |-> holiday]
FetchFails(response) == response.kind # "json" \/ response.code # 0

\* holiday_data[date_str] = info.get("holiday"): true, false, or None when the entry
\* has no such field
info_holiday(info) == IF "holiday" \in DOMAIN info THEN JBool(info.holiday) ELSE JNull

\* str(year)
year_key(year) == ToStr(year)

\* every "%m-%d" text of a leap year, each a holiday
EveryDay == { short_date_str(k) : k \in 0..(YearDays(Epoch.year) - 1) }
EveryDayHoliday == [d \in EveryDay |-> JBool(TRUE)]

\* variant: a failed fetch makes every day of the year a holiday
fetch_holiday_data_fail_closed(cache, year, response) ==
  IF FetchFails(response) THEN [data |-> EveryDayHoliday, cache |-> cache, fetched |-> TRUE]
  ELSE [data |-> [d \in DOMAIN response.holiday |-> info_holiday(response.holiday[d])],
        cache |-> cache, fetched |-> TRUE]
\* HolidayManager.fetch_holiday_data(year) when the API answers response: the data it
\* returns and the cache it leaves; _save_holiday_data stamps the cache
fetch_holiday_data(cache, year, response) ==
  LET Known(key) ==
        IF key \in DOMAIN cache /\ "data" \in DOMAIN cache[key]
        THEN [data |-> cache[key].data, cache |-> cache, fetched |-> FALSE]
        ELSE IF FetchFails(response)
        THEN [data |-> << >>, cache |-> cache, fetched |-> TRUE]
        ELSE LET Kept(data) ==
                   [data |-> data,
                    cache |-> DictSet(DictSet(cache, key, [data |-> data]),
                                      "last_update", [stamp |-> TRUE]),
                    fetched |-> TRUE]
             IN Kept([d \in DOMAIN response.holiday |-> info_holiday(response.holiday[d])])
  IN Known(year_key(year))

\* `date.weekday() >= 5`: Saturday and Sunday
FirstWeekendDay == 5
is_weekend(date) == date_weekday(date) >= FirstWeekendDay

\* HolidayManager.is_holiday(date), after the data of the year was fetched
is_holiday(date, data) ==
  LET Looked(short) ==
        IF short \in DOMAIN data THEN data[short] = JBool(TRUE)
        ELSE is_weekend(date)
  IN Looked(DateTexts[date])
\* HolidayManager.is_workday(date), after the data of the year was fetched
is_workday(date, data) ==
  LET Looked(short) ==
        IF short \in DOMAIN data THEN data[short] = JBool(FALSE)
        ELSE ~is_weekend(date)
  IN Looked(DateTexts[date])

\* the special days the API may name for a year: none; the National Day week with the
\* two weekend days worked instead; an entry without the field "holiday"; every day
NoSpecialDays == [d \in {} |-> [holiday |-> TRUE]]
NationalDay ==
  [d \in {"09-29", "10-01", "10-02", "10-03", "10-04", "10-05", "10-06", "10-07", "10-12"}
     |-> [holiday |-> d \notin {"09-29", "10-12"}]]
WithoutField == [d \in {"10-01"} |-> [name |-> "National Day"]]
NoWorkday == [d \in EveryDay |-> [holiday |-> TRUE]]
SpecialDays == {NoSpecialDays, NationalDay, WithoutField, NoWorkday}
FailedResponses == {BadStatus, BadCode, FetchRaises}
Responses == FailedResponses \cup { Answer(holiday) : holiday \in SpecialDays }

\* the years of the model's dates, and what the API answers for each of them
Years == {2024, 2025, 2026}
ResponsesByYear ==
  { [y \in Years |-> r] : r \in Responses }
    \cup { [y \in Years |-> IF y = Epoch.year THEN Answer(NationalDay) ELSE r] :
             r \in {BadStatus, Answer(NoWorkday)} }

\* Thu 2024-01-04, Fri, Sat; Sat 2024-09-28, Sun, Mon, Tue 2024-10-01; Fri 2024-10-11,
\* Sat; Mon 2024-12-30, Tue, Wed 2025-01-01
OracleDates == {3, 4, 5, 271, 272, 273, 274, 284, 285, 364, 365, 366}

\* oracle calls of one run
MaxOracleCalls == 2
OracleCalls == IF "n" \in DOMAIN op THEN op.n ELSE 0

\* await holiday_manager.is_workday(date), the API answering response
IsWorkday(date, response) ==
  LET Fetched(f) ==
        /\ holiday_data' = f.cache
        /\ op' = [kind |-> "is_workday", date |-> date, response |-> response,
                  answer |-> is_workday(date, f.data), fetched |-> f.fetched,
                  n |-> OracleCalls + 1, dest |-> "", index |-> 0, uid |-> 0]
  IN /\ OracleCalls < MaxOracleCalls
     /\ Fetched(fetch_holiday_data(holiday_data, DateYears[date], response))
     /\ UNCHANGED << varsA, now, reminder_data, jobs, created, loaded, handlers, data_file,
                     qq_cache, qq_lock, callers, fetched >>

\* await holiday_manager.is_holiday(date), the API answering response
IsHoliday(date, response) ==
  LET Fetched(f) ==
        /\ holiday_data' = f.cache
        /\ op' = [kind |-> "is_holiday", date |-> date, response |-> response,
                  answer |-> is_holiday(date, f.data), fetched |-> f.fetched,
                  n |-> OracleCalls + 1, dest |-> "", index |-> 0, uid |-> 0]
  IN /\ OracleCalls < MaxOracleCalls
     /\ Fetched(fetch_holiday_data(holiday_data, DateYears[date], response))
     /\ UNCHANGED << varsA, now, reminder_data, jobs, created, loaded, handlers, data_file,
                     qq_cache, qq_lock, callers, fetched >>

(***************************************************************************)
(* The Recurrence Engine: nextFireTime for the rules that repeat by days,  *)
(* with the skip-forward loop over the oracle's answers.                   *)
(***************************************************************************)
\* the bound of the skip-forward loop
MaxSkipDays == 366
\* the days a rule advances by
StepDays(repeat) == IF repeat = "weekly" THEN WeekLength ELSE 1

\* variant: every day qualifies
qualifies_always(calendarFilter, date, data) == TRUE
\* whether the oracle lets the date pass the calendar filter
qualifies(calendarFilter, date, data) ==
  IF calendarFilter = "workday" THEN is_workday(date, data)
  ELSE IF calendarFilter = "holiday" THEN is_holiday(date, data)
  ELSE TRUE

\* the data the oracle answers from for a date: the data kept for the year, or else what
\* the API answers for that year.  A fetch that fails is repeated at the next query and
\* fails again, one that succeeds is kept, so that the loop gets the answers it would
\* get from a cache that holds every year the API answers for
oracle_data(date, cache, responses) ==
  fetch_holiday_data(cache, DateYears[date], responses[DateYears[date]]).data

\* the cache after the queries for the dates of the years from year to last
RECURSIVE cache_through(_, _, _, _)
cache_through(cache, responses, year, last) ==
  IF year > last THEN cache
  ELSE cache_through(fetch_holiday_data(cache, year, responses[year]).cache, responses,
                     year + 1, last)

\* the first date of first..last that passes the filter, asked in ascending order;
\* NoDate when none does
NoDate == 0 - 1
RECURSIVE first_qualifying(_, _, _, _, _)
first_qualifying(calendarFilter, first, last, cache, responses) ==
  IF first = last
  THEN IF qualifies(calendarFilter, first, oracle_data(first, cache, responses))
       THEN first ELSE NoDate
  ELSE LET Halved(middle) ==
             LET Earlier(found) ==
                   IF found # NoDate THEN found
                   ELSE first_qualifying(calendarFilter, middle + 1, last, cache, responses)
             IN Earlier(first_qualifying(calendarFilter, first, middle, cache, responses))
       IN Halved((first + last) \div 2)

\* the skip-forward loop from candidate on: the first date that qualifies among the
\* MaxSkipDays dates it asks the oracle about, or the unfiltered candidate when the
\* bound is reached
skip_forward(calendarFilter, candidate, cache, responses) ==
  LET Ended(found) ==
        IF found # NoDate
        THEN [date |-> found, queries |-> found - candidate + 1, aborted |-> FALSE,
              cache |-> cache_through(cache, responses, DateYears[candidate],
                                      DateYears[found])]
        ELSE [date |-> candidate, queries |-> MaxSkipDays, aborted |-> TRUE,
              cache |-> cache_through(cache, responses, DateYears[candidate],
                                      DateYears[candidate + MaxSkipDays - 1])]
      Asked(last) ==
        Ended(first_qualifying(calendarFilter, candidate, last,
                               cache_through(cache, responses, DateYears[candidate],
                                             DateYears[last]),
                               responses))
  IN Asked(candidate + MaxSkipDays - 1)

\* nextFireTime(current, rule, calendar), as a date
nextFireTime(current, repeat, calendarFilter, cache, responses) ==
  IF calendarFilter = "none"
  THEN [date |-> current + StepDays(repeat), queries |-> 0, aborted |-> FALSE,
        cache |-> cache]
  ELSE skip_forward(calendarFilter, current + StepDays(repeat), cache, responses)

\* a timer of a repeating rule is re-armed
NextFireTime(current, repeat, calendarFilter, responses) ==
  LET Found(next) ==
        /\ holiday_data' = next.cache
        /\ op' = [kind |-> "nextFireTime", current |-> current, repeat |-> repeat,
                  calendarFilter |-> calendarFilter, responses |-> responses,
                  date |-> next.date, queries |-> next.queries, aborted |-> next.aborted,
                  n |-> OracleCalls + 1, dest |-> "", index |-> 0, uid |-> 0]
  IN /\ OracleCalls < MaxOracleCalls
     /\ Found(nextFireTime(current, repeat, calendarFilter, holiday_data, responses))
     /\ UNCHANGED << varsA, now, reminder_data, jobs, created, loaded, handlers, data_file,
                     qq_cache, qq_lock, callers, fetched >>

\* the oracle starts without data, or with the data of one year that it kept
InitOracle ==
  /\ InitANone
  /\ now = Instant(StartMinute, 1)
  /\ reminder_data = EmptyData
  /\ jobs = {}
  /\ created = 0
  /\ op = NoOp
  /\ loaded = EmptyData
  /\ handlers = NoHandlers
  /\ data_file = json_dump(loaded)
  /\ holiday_data \in
       { << >>, fetch_holiday_data(<< >>, Epoch.year, Answer(NationalDay)).cache }
  /\ qq_cache = << >>
  /\ qq_lock = << >>
  /\ callers = [c \in Callers |-> NoCall]
  /\ fetched = [p \in PlatformIds |-> [fetches |-> 0, cleared |-> FALSE, set |-> FALSE]]

\* Thu 2024-01-04, Fri; Sun 2024-09-29, Mon; Tue 2024-12-31
FireDates == {3, 4, 272, 273, 365}
DayRules ==
  { << "daily", "none" >>, << "daily", "workday" >>, << "daily", "holiday" >>,
    << "weekly", "workday" >> }

NextOracle ==
  \/ \E date \in OracleDates, response \in Responses : IsWorkday(date, response)
  \/ \E date \in OracleDates, response \in Responses : IsHoliday(date, response)
  \/ \E current \in FireDates, rule \in DayRules, responses \in ResponsesByYear :
       NextFireTime(current, rule[1], rule[2], responses)

SpecOracle == InitOracle /\ [][NextOracle]_vars
\* what the oracle reports for a date after the latest operation
OracleWorkday(date) == is_workday(date, oracle_data(date, holiday_data, op.responses))
DailyWorkdayRule ==
  op.kind = "nextFireTime" /\ op.repeat = "daily" /\ op.calendarFilter = "workday"

\* C31 as stated: for a daily rule restricted to workdays nextFireTime never returns a
\* date that the oracle reports as no workday, and asks the oracle at most MaxSkipDays
\* times, whatever the oracle answers.
C31_NeverNonWorkday ==
  DailyWorkdayRule => (OracleWorkday(op.date) /\ op.queries <= MaxSkipDays)

\* C31: for a daily rule restricted to workdays nextFireTime asks the oracle at most
\* MaxSkipDays times; it returns the first of the next MaxSkipDays days that the oracle
\* reports as a workday when there is one, and else gives up and returns the next day,
\* which the oracle reports as no workday.
C31_FirstWorkdayOrNextDay ==
  DailyWorkdayRule =>
    LET workdays == { d \in (op.current + 1)..(op.current + MaxSkipDays) : OracleWorkday(d) }
    IN /\ op.queries <= MaxSkipDays
       /\ IF workdays = {}
          THEN op.aborted /\ op.date = op.current + 1 /\ op.queries = MaxSkipDays
          ELSE /\ ~op.aborted
               /\ op.date \in workdays
               /\ \A d \in workdays : op.date <= d
               /\ op.queries = op.date - op.current

C31_GaveUpWithoutWorkday ==
  /\ DailyWorkdayRule
  /\ op.aborted
  /\ op.queries = MaxSkipDays
  /\ ~OracleWorkday(op.date)

\* C32: when the holiday data cannot be fetched (a status other than 200, a result code
\* other than 0, an exception), is_workday and is_holiday answer from the weekday alone:
\* Monday to Friday is a workday and no holiday, Saturday and Sunday a holiday and no
\* workday; nothing is kept of the failed fetch.
C32_Step ==
  (op'.kind \in {"is_workday", "is_holiday"} /\ op'.fetched /\ FetchFails(op'.response)) =>
    /\ op'.answer = IF op'.kind = "is_workday" THEN op'.date % WeekLength \in 0..4
                    ELSE op'.date % WeekLength \in {5, 6}
    /\ holiday_data' = holiday_data
C32_FailedFetchAnswersByWeekday == [][C32_Step]_vars

C32_SaturdayAfterBadStatus ==
  /\ op.kind = "is_workday"
  /\ op.fetched
  /\ op.response = BadStatus
  /\ op.date = 5
  /\ ~op.answer

(***************************************************************************)
(* The QQ-id cache: QQIdCache of qq_id_cache.py.  A get_qq_id call runs    *)
(* until it has to wait for the lock or for the platform's answer; the     *)
(* lock serves its waiters in the order they came.                         *)
(***************************************************************************)
\* "123456789", what _fetch_real_qq_id returns when it learns nothing
DefaultQQId == "123456789"
\* the platform instances a caller may pass: none; one whose bot answers get_login_info;
\* one whose bot raises and that carries self_id; one without bot whose self_id is the
\* default number
NoInstance == [kind |-> "None"]
PlatformInstances ==
  { NoInstance,
    [kind |-> "platform", login |-> "answers", user_id |-> 10001],
    [kind |-> "platform", login |-> "raises", self_id |-> "10002"],
    [kind |-> "platform", login |-> "no bot", self_id |-> DefaultQQId] }

\* QQIdCache._fetch_real_qq_id(platform_instance)
fetch_real_qq_id(platform_instance) ==
  IF platform_instance = NoInstance THEN DefaultQQId
  ELSE IF platform_instance.login = "answers" THEN ToStr(platform_instance.user_id)
  ELSE IF "self_id" \in DOMAIN platform_instance /\ platform_instance.self_id # DefaultQQId
  THEN platform_instance.self_id
  ELSE DefaultQQId


\* asyncio.Lock: free when nobody is at it; release hands it to the first waiter
LockFree == qq_lock = << >>
Holds(c) == qq_lock # << >> /\ Head(qq_lock) = c

\* variant: the cache is not looked at again under the lock
double_check_skipped(platform_id) == FALSE
\* `if platform_id in self._cache` under the lock
double_check(platform_id) == platform_id \in DOMAIN qq_cache

UnchangedButCache ==
  UNCHANGED << varsA, varsB, holiday_data >>

\* get_qq_id(platform_id, platform_instance) up to its first suspension: the answer from
\* the cache, or the lock taken and the fetch begun, or the wait for the lock
GetQQId(c, platform_id, platform_instance) ==
  /\ callers[c].pc = "idle"
  /\ IF platform_id \in DOMAIN qq_cache
     THEN /\ callers' = [callers EXCEPT ![c] =
                           [pc |-> "done", platform_id |-> platform_id,
                            result |-> qq_cache[platform_id], hit |-> TRUE]]
          /\ UNCHANGED << qq_lock, fetched >>
     ELSE IF LockFree
     THEN /\ qq_lock' = << c >>
          /\ callers' = [callers EXCEPT ![c] =
                           [pc |-> "fetching", platform_id |-> platform_id,
                            result |-> fetch_real_qq_id(platform_instance), hit |-> FALSE]]
          /\ fetched' = [fetched EXCEPT ![platform_id].fetches = @ + 1]
     ELSE /\ qq_lock' = Append(qq_lock, c)
          /\ callers' = [callers EXCEPT ![c] =
                           [pc |-> "waiting", platform_id |-> platform_id,
                            result |-> fetch_real_qq_id(platform_instance), hit |-> FALSE]]
          /\ UNCHANGED fetched
  /\ UNCHANGED qq_cache
  /\ UnchangedButCache

\* the waiter the lock was handed to goes on: the second look at the cache, then the
\* answer from the cache or the fetch
LockAcquired(c) ==
  /\ callers[c].pc = "waiting"
  /\ Holds(c)
  /\ IF double_check(callers[c].platform_id)
     THEN /\ callers' = [callers EXCEPT ![c].pc = "done",
                                        ![c].result = qq_cache[callers[c].platform_id],
                                        ![c].hit = TRUE]
          /\ qq_lock' = Tail(qq_lock)
          /\ UNCHANGED fetched
     ELSE /\ callers' = [callers EXCEPT ![c].pc = "fetching"]
          /\ fetched' = [fetched EXCEPT ![callers[c].platform_id].fetches = @ + 1]
          /\ UNCHANGED qq_lock
  /\ UNCHANGED qq_cache
  /\ UnchangedButCache

\* the platform has answered: the number is cached, the lock released, the call returns
FetchReturned(c) ==
  /\ callers[c].pc = "fetching"
  /\ qq_cache' = DictSet(qq_cache, callers[c].platform_id, callers[c].result)
  /\ qq_lock' = Tail(qq_lock)
  /\ callers' = [callers EXCEPT ![c].pc = "done"]
  /\ UNCHANGED fetched
  /\ UnchangedButCache

\* QQIdCache.set_qq_id(platform_id, qq_id)
set_qq_id(platform_id, qq_id) ==
  /\ qq_cache' = DictSet(qq_cache, platform_id, qq_id)
  /\ fetched' = [fetched EXCEPT ![platform_id].set = TRUE]
  /\ UNCHANGED << qq_lock, callers >>
  /\ UnchangedButCache

\* QQIdCache.clear_cache(platform_id); NoPlatform stands for the call without argument
NoPlatform == ""
clear_cache(platform_id) ==
  /\ qq_cache' = IF platform_id # NoPlatform
                 THEN [p \in DOMAIN qq_cache \ {platform_id} |-> qq_cache[p]]
                 ELSE << >>
  /\ fetched' = [p \in PlatformIds |->
                   IF p \in DOMAIN qq_cache /\ (platform_id = NoPlatform \/ p = platform_id)
                   THEN [fetched[p] EXCEPT !.cleared = TRUE] ELSE fetched[p]]
  /\ UNCHANGED << qq_lock, callers >>
  /\ UnchangedButCache

NextCache ==
  \/ \E c \in Callers, platform_id \in PlatformIds, platform_instance \in PlatformInstances :
       GetQQId(c, platform_id, platform_instance)
  \/ \E c \in Callers : LockAcquired(c)
  \/ \E c \in Callers : FetchReturned(c)
  \/ \E platform_id \in PlatformIds : set_qq_id(platform_id, "20002")
  \/ \E platform_id \in PlatformIds \cup {NoPlatform} : clear_cache(platform_id)

SpecCache == InitStore /\ [][NextCache]_vars

\* the calls for platform_id that have returned
ReturnedFor(platform_id) ==
  { c \in Callers : callers[c].pc = "done" /\ callers[c].platform_id = platform_id }
Untouched(platform_id) == ~fetched[platform_id].cleared /\ ~fetched[platform_id].set

\* C33: as long as the entry of a platform_id is neither cleared nor set by hand, the
\* fetch from the platform runs at most once for any number of overlapping get_qq_id
\* calls with that platform_id, every such call returns the same value, and a call
\* that starts when the value is cached returns it at once without fetching.
C33_Step ==
  /\ \A p \in PlatformIds :
       Untouched(p)' =>
         /\ fetched'[p].fetches <= 1
         /\ \A c1, c2 \in ReturnedFor(p)' : callers'[c1].result = callers'[c2].result
         /\ \A c \in ReturnedFor(p)' : callers'[c].result = qq_cache'[p]
  /\ \A c \in Callers :
       (callers[c].pc = "idle" /\ callers'[c].pc # "idle"
          /\ callers'[c].platform_id \in DOMAIN qq_cache) =>
         /\ callers'[c].pc = "done"
         /\ callers'[c].hit
         /\ callers'[c].result = qq_cache[callers'[c].platform_id]
         /\ fetched' = fetched
C33_SingleFlight == [][C33_Step]_vars

\* two calls met at the lock and a third came after the first returned
C33_ThreeCallsOneFetch ==
  \E p \in PlatformIds :
    /\ Untouched(p)
    /\ ReturnedFor(p) = Callers
    /\ fetched[p].fetches = 1
    /\ \E c1, c2 \in Callers : c1 # c2 /\ ~callers[c1].hit /\ callers[c2].hit
    /\ \E c \in Callers : callers[c].result # fetch_real_qq_id(NoInstance)

\* C34: every call of trigger_and_capture_command that has ended has returned a pair
\* (success, replies): success is true exactly when replies is non-empty, and a call
\* that ended because creating the event, or a step after the interceptor was put on
\* it up to its submission, raised has returned (False, []).
C34_AlwaysReturnsPair ==
  \A i \in Invs :
    /\ Returned(i) <=> outcome[i] \in {"captured", "timeout", "error"}
    /\ Returned(i) =>
         /\ result[i].ok <=> result[i].msgs # <<>>
         /\ outcome[i] = "error" => result[i] = [ok |-> FALSE, msgs |-> <<>>]
         /\ outcome[i] = "captured" <=> result[i].ok
    /\ ~Returned(i) => pc[i] \in {"idle", "sleeping"}

\* one call ended on an exception after its event was made, the other with replies
C34_ErrorAndCapture ==
  \E i, j \in Invs :
    /\ outcome[i] = "error"
    /\ Created(i)
    /\ outcome[j] = "captured"
    /\ result[j].msgs # <<>>
    /\ inst[i] = inst[j]

(***************************************************************************)
(* Invocations of trigger_and_capture_command that run one after another:  *)
(* a call starts only when no other call is in its wait loop.              *)
(***************************************************************************)
NoneUnderWay == \A j \in Invs : pc[j] # "sleeping"

NextSequential ==
  \/ \E i \in Invs : NoneUnderWay /\ TriggerCreateRaises(i)
  \/ \E i \in Invs : NoneUnderWay /\ TriggerPutRaises(i)
  \/ \E i \in Invs : NoneUnderWay /\ TriggerSubmit(i)
  \/ \E i \in Invs : Poll(i)
  \/ \E e \in Invs : HandlerSend(e)
  \/ \E e \in Invs : HandlerCallAction(e)
  \/ \E i \in Invs : ForwardFailure(i)
  \/ \E i \in Invs : ForwardCaptured(i)

SpecSequential == InitBridge /\ [][NextSequential]_vars

\* C35: when the calls on one CommandTrigger run one after another, then after each
\* call the send of that call's event is the bound send of that same event, not one
\* saved from the event of an earlier call.
C35_OwnSendAfterEachCall ==
  \A i \in Invs :
    (Returned(i) /\ Created(i)) => evSend[i].ev = i /\ evSend[i].kind = "send"

\* C36: of a request whose replies were captured, every reply the handler sends, however
\* late, is in the captured replies and none is delivered to the destination directly.
C36_EveryReplyCaptured ==
  \A i \in Invs :
    outcome[i] = "captured" =>
      /\ \A n \in 1..sent[i] : \E k \in 1..Len(result[i].msgs) : result[i].msgs[k] = Reply(i, n)
      /\ \A k \in 1..Len(delivered) : ~(delivered[k].by = "host" /\ delivered[k].firing = i)

(***************************************************************************)
(* intercepted_call_action with every action and every shape of the        *)
(* `message` parameter.                                                    *)
(***************************************************************************)
\* the actions intercepted_call_action treats as sends
SendActions ==
  {"send_private_msg", "send_group_msg", "send_private_forward_msg", "send_group_forward_msg"}

\* message segments: dicts of type text, at and image, a dict without type, a text
\* segment without text, and a segment that is no dict
TextSegment == [kind |-> "dict", type |-> "text", data |-> [text |-> "hi"]]
AtSegment == [kind |-> "dict", type |-> "at", data |-> [qq |-> "42"]]
ImageSegment == [kind |-> "dict", type |-> "image", data |-> [file |-> "a.png"]]
UntypedSegment == [kind |-> "dict", data |-> [text |-> "hi"]]
BlankTextSegment == [kind |-> "dict", type |-> "text", data |-> << >>]
StringSegment == [kind |-> "str", text |-> "hi"]

SegmentList(segs) == [kind |-> "list", segs |-> segs]
\* the keyword parameters of a call: with a segment list, with a plain string, with an
\* empty list, without `message` (the forward actions carry `messages`)
CallParams ==
  { [group_id |-> "g1", message |-> SegmentList(<< TextSegment >>)],
    [group_id |-> "g1", message |-> SegmentList(<< AtSegment, TextSegment >>)],
    [group_id |-> "g1", message |-> SegmentList(<< ImageSegment >>)],
    [group_id |-> "g1", message |-> SegmentList(<< UntypedSegment, StringSegment >>)],
    [group_id |-> "g1", message |-> SegmentList(<< BlankTextSegment >>)],
    [group_id |-> "g1", message |-> SegmentList(<< >>)],
    [group_id |-> "g1", message |-> [kind |-> "str", text |-> "hi"]],
    [group_id |-> "g1", messages |-> SegmentList(<< TextSegment >>)],
    [group_id |-> "g1"] }
CallActions == SendActions \cup {"get_group_info"}

\* what one segment of the list adds to msg_chain.chain
segment_components(seg) ==
  IF seg.kind # "dict" THEN << >>
  ELSE LET seg_type == Get(seg, "type", "")
           seg_data == Get(seg, "data", << >>)
       IN IF seg_type = "text" THEN << Plain(Get(seg_data, "text", "")) >>
          ELSE IF seg_type = "at" THEN << At(Get(seg_data, "qq", ""), "") >>
          ELSE << >>

RECURSIVE segments_chain(_)
segments_chain(segs) ==
  IF segs = << >> THEN << >>
  ELSE segment_components(Head(segs)) \o segments_chain(Tail(segs))

\* msg_chain.chain as intercepted_call_action builds it from params
call_action_chain(params) ==
  IF "message" \notin DOMAIN params THEN << >>
  ELSE IF params.message.kind # "list" THEN << >>
  ELSE segments_chain(params.message.segs)

\* the call as the bot's own call_action receives it
ActionCall(action, params) == [type |-> "action", action |-> action, params |-> params]

\* await event.bot.api.call_action(action, **params)
CallAction(e, action, params) ==
  /\ e \in event_queue
  /\ evBot[e]
  /\ sent[e] < MaxReplies
  /\ sent' = [sent EXCEPT ![e] = @ + 1]
  /\ LET g == botCall
         chain == call_action_chain(params)
     IN IF g.kind = "intercepted_call_action" /\ action \in SendActions
        THEN /\ captured_messages' =
                  IF chain # << >>
                  THEN [captured_messages EXCEPT ![g.self] =
                          Append(@, [ev |-> e, n |-> sent[e] + 1, chain |-> chain])]
                  ELSE captured_messages
             /\ has_send_oper' = [has_send_oper EXCEPT ![g.ev] = TRUE]
             /\ lastCall' = [ev |-> e, via |-> "call_action", ret |-> "message_id",
                             action |-> action, params |-> params]
             /\ UNCHANGED delivered
        ELSE \* the original call_action, reached through the shim or directly
             /\ delivered' = Append(delivered,
                  Delivery(dest[e], << ActionCall(action, params) >>, "host", e))
             /\ lastCall' = [ev |-> e, via |-> "call_action", ret |-> "platform",
                             action |-> action, params |-> params]
             /\ UNCHANGED << captured_messages, has_send_oper >>
  /\ FiringInputsUnchanged
  /\ UNCHANGED << pc, evSend, botCall, original_send_method, target_event,
                  original_call_action, event_queue, waited_time, polls, pollSeen,
                  result, outcome >>

\* one firing on an event whose bot has api.call_action
InitShim ==
  /\ pc = [i \in Invs |-> IF i = 1 THEN "idle" ELSE "off"]
  /\ inst = [i \in Invs |-> 1]
  /\ dest = [i \in Invs |-> GroupOrigin]
  /\ reminder = [i \in Invs |-> DefaultReminder]
  /\ evBot = [i \in Invs |-> TRUE]
  /\ config = [max_command_wait_time |-> MaxWaitBridge,
               enable_command_at |-> FALSE, unique_session |-> FALSE]
  /\ InitAFixed
  /\ InitBFixed

NextShim ==
  \/ \E i \in Invs : TriggerSubmit(i)
  \/ \E i \in Invs : Poll(i)
  \/ \E e \in Invs, action \in CallActions, params \in CallParams : CallAction(e, action, params)

SpecShim == InitShim /\ [][NextShim]_vars

\* a call of bot.api.call_action that the shim received
ShimCalled == sent' # sent /\ botCall.kind = "intercepted_call_action"

\* C37: every send action the call_action shim receives, whatever the shape of its
\* message parameter, adds one entry to the capture buffer and reaches no platform;
\* every other action is handed to the original call_action unchanged.
C37_Step ==
  ShimCalled =>
    IF lastCall'.action \in SendActions
    THEN /\ Len(captured_messages'[botCall.self]) = Len(captured_messages[botCall.self]) + 1
         /\ delivered' = delivered
    ELSE /\ captured_messages' = captured_messages
         /\ delivered' = Append(delivered,
              Delivery(dest[lastCall'.ev], << ActionCall(lastCall'.action, lastCall'.params) >>,
                       "host", lastCall'.ev))
C37_EverySuppressedSendCaptured == [][C37_Step]_vars

(***************************************************************************)
(* Cancellation of the task that runs trigger_and_capture_command.         *)
(***************************************************************************)
\* the task is cancelled while it waits in asyncio.sleep: CancelledError is raised at
\* the await; `except Exception` does not catch it and there is no finally clause
Cancel(i) ==
  /\ pc[i] = "sleeping"
  /\ pc' = [pc EXCEPT ![i] = "cancelled"]
  /\ outcome' = [outcome EXCEPT ![i] = "cancelled"]
  /\ FiringInputsUnchanged
  /\ UNCHANGED << evSend, has_send_oper, botCall, captured_messages, original_send_method,
                  target_event, original_call_action, event_queue, waited_time, polls,
                  pollSeen, result, sent, lastCall, delivered >>

NextCancel ==
  \/ \E i \in Invs : TriggerSubmit(i)
  \/ \E i \in Invs : Poll(i)
  \/ \E e \in Invs : HandlerSend(e)
  \/ \E e \in Invs : HandlerCallAction(e)
  \/ \E i \in Invs : Cancel(i)

SpecCancel == InitWait /\ [][NextCancel]_vars

\* C38: once a call was cancelled in its wait loop, its event's send is the event's
\* bound send again and the bot's call_action is no shim made for that event.
C38_RestoredAfterCancel ==
  \A i \in Invs :
    pc[i] = "cancelled" =>
      /\ evSend[i] = EventSend(i)
      /\ ~(botCall.kind = "intercepted_call_action" /\ botCall.ev = i)

(***************************************************************************)
(* Adds without a starting weekday, typed before, in and after the minute  *)
(* they name.                                                              *)
(***************************************************************************)
NextNow ==
  \/ \E time_str \in WeekTimes, repeat \in {"", "daily"} :
       add_reminder("x", time_str, "", repeat, "")
  \/ \E time_str \in WeekTimes, repeat \in {"", "daily"} :
       add_task("x", time_str, "", repeat, "")
  \/ \E time_str \in WeekTimes, repeat \in {"", "daily"} :
       add_command_task("/rmd--ls", time_str, "", repeat, "")
  \/ \E time_str \in WeekTimes, repeat \in {"", "daily"} :
       add_remote_reminder(OtherGroupId, "x", time_str, "", repeat, "")
  \/ \E time_str \in WeekTimes, repeat \in {"", "daily"} :
       add_remote_task(OtherGroupId, "x", time_str, "", repeat, "")
  \/ \E time_str \in WeekTimes, repeat \in {"", "daily"} :
       add_remote_command_task(OtherGroupId, "/rmd--ls", time_str, "", repeat, "")
  \/ \E item_type \in ItemTypes, time_str \in WeekTimes, repeat \in {"", "daily"},
        group_id \in {NoGroup, OtherGroupId} :
       process_add_item(item_type, "/rmd--ls", time_str, "", repeat, "", group_id)

SpecNow == InitWeek /\ [][NextNow]_vars

\* C39: after an add that reported success, the new item is in the list of its
\* destination and in the data file, and its fireAt is not before the instant of the
\* add, whatever HH:MM was asked for, the current minute included.
C39_AddedItemIsKept ==
  (op.kind # "none" /\ Stored) =>
    /\ \E k \in 1..Len(DictGet(reminder_data, op.dest)) :
         reminder_data[op.dest][k].uid = op.uid
    /\ ItemOf(load_reminder_data(data_file), op.uid) # {}
    /\ ~Before(strptime(op.datetime), op.at)

(***************************************************************************)
(* Adds for one group chat whose events spell the transport in either way. *)
(***************************************************************************)
\* ReminderCommands.add_reminder(event, text, time_str, ...) typed in chat raw_msg_origin
add_reminder_in(raw_msg_origin, text, time_str, repeat) ==
  /\ MayAdd
  /\ AddChecked("add_reminder", {local_origin(raw_msg_origin, Sender)}, "reminder", text,
                time_str, "", repeat, "", FALSE)

\* CompatibilityHandler.add_reminder(unified_msg_origin, reminder_item)
handler_add_reminder(unified_msg_origin) ==
  /\ MayAdd
  /\ \E target_key \in ensure_key_exists(reminder_data, unified_msg_origin) :
       /\ reminder_data' =
            DictSet(reminder_data, target_key,
                    Append(DictGet(reminder_data, target_key),
                           NewItem("reminder", strftime(Instant(DayMinutes, 0)), "daily",
                                   created + 1)))
       /\ op' = [kind |-> "handler_add_reminder", dest |-> unified_msg_origin, index |-> 0,
                 uid |-> created + 1, target_key |-> target_key]
  /\ created' = created + 1
  /\ UNCHANGED << now, data_file, jobs, loaded, varsC, handlers, varsA >>

\* the group of LegacyChat and VersionedChat
SameGroupId == "g1"

\* the repeat types the adds name
KeyRepeats == {"daily", "weekly"}

NextKeys ==
  \/ \E o \in {LegacyChat, VersionedChat}, time_str \in WeekTimes, repeat \in KeyRepeats :
       add_reminder_in(o, "x", time_str, repeat)
  \/ \E time_str \in WeekTimes, repeat \in KeyRepeats :
       add_remote_reminder(SameGroupId, "x", time_str, "", repeat, "")
  \/ \E time_str \in WeekTimes, repeat \in KeyRepeats :
       add_remote_task(SameGroupId, "x", time_str, "", repeat, "")
  \/ \E time_str \in WeekTimes, repeat \in KeyRepeats :
       add_remote_command_task(SameGroupId, "/rmd--ls", time_str, "", repeat, "")
  \/ \E item_type \in ItemTypes, group_id \in {NoGroup, SameGroupId}, time_str \in WeekTimes,
        repeat \in KeyRepeats :
       process_add_item(item_type, "/rmd--ls", time_str, "", repeat, "", group_id)
  \/ \E o \in {LegacyChat, VersionedChat} : handler_add_reminder(o)

SpecKeys == InitCompat /\ [][NextKeys]_vars

\* C40: whatever adds were made through whatever add path, no two distinct keys of the
\* store are compatible with each other.
C40_NoTwoCompatibleKeys ==
  \A key1, key2 \in DOMAIN reminder_data :
    key1 # key2 => ~is_compatible_origin(key1, key2)

====
